---- MODULE Spec2Model ----
(***************************************************************************)
(* Cluster coordinator of jn_cuclark.                                      *)
(*                                                                         *)
(* Two programs of the repository are modelled:                            *)
(*   "app"     src/app/arda_mpi.cpp  the MPI cohort started by mpirun:     *)
(*             run_mpi_mode on every rank (broadcast, barrier, job,        *)
(*             gather, merge, report), and launch_mpi, the process that    *)
(*             loads the file, probes the workers and starts mpirun;       *)
(*   "legacy"  src/arda_mpi.cpp      main / run_master / run_worker: the   *)
(*             SSH health checks, the sequential SSH mode (world_size = 1) *)
(*             and its own parallel mode (world_size > 1).                 *)
(*                                                                         *)
(* Strings are sequences of one-character strings, so that the wire        *)
(* formats (delimiters, getline, stoi) are computed as the code computes   *)
(* them.                                                                   *)
(***************************************************************************)
EXTENDS Integers, Sequences, FiniteSets, TLC

(***************************************************************************)
(* Bounds of the model.                                                    *)
(***************************************************************************)
\* the workers listed in the configuration are n1 .. n<MaxWorkers>
MaxWorkers == 2
\* elapsed_seconds of a job ranges over 0 .. MaxElapsed (whole seconds)
MaxElapsed == 1
\* options.max_retries as the configuration files set it
MaxRetriesCfg == 1

(***************************************************************************)
(* Strings.                                                                *)
(***************************************************************************)
NL == "\n"

Digits == <<"0", "1", "2", "3", "4", "5", "6", "7", "8", "9">>

IsDigit(c) == \E i \in 1..10 : Digits[i] = c

DigitVal(c) == (CHOOSE i \in 1..10 : Digits[i] = c) - 1

RECURSIVE NatToStr(_)
\* operator<<(int) / to_string(int) for n >= 0: the decimal digits
NatToStr(n) == IF n < 10 THEN <<Digits[n + 1]>>
               ELSE NatToStr(n \div 10) \o <<Digits[(n % 10) + 1]>>

\* operator<<(int): a leading '-' for negative numbers
IntToStr(n) == IF n < 0 THEN <<"-">> \o NatToStr(0 - n) ELSE NatToStr(n)

RECURSIVE DigitPrefix(_, _)
\* the value of the leading run of digits of s, acc being the value so far
DigitPrefix(s, acc) ==
    IF s = <<>> \/ ~IsDigit(Head(s)) THEN acc
    ELSE DigitPrefix(Tail(s), 10 * acc + DigitVal(Head(s)))

\* std::stoi: an optional sign, then at least one digit, the rest ignored;
\* without a digit it throws std::invalid_argument (ok = FALSE)
Stoi(s) ==
    LET neg  == s # <<>> /\ Head(s) = "-"
        body == IF s # <<>> /\ Head(s) \in {"-", "+"} THEN Tail(s) ELSE s
    IN  IF body = <<>> \/ ~IsDigit(Head(body))
        THEN [ok |-> FALSE, val |-> 0]
        ELSE [ok |-> TRUE,
              val |-> IF neg THEN 0 - DigitPrefix(body, 0) ELSE DigitPrefix(body, 0)]

\* Statement sequences are written CHOOSE r \in {F(v) : v \in {x}} : TRUE:
\* x is computed once and F works on its value.

\* string::find(c): the first position of c in s at or after i, 0 for npos
IndexOf(s, c, i) ==
    LET Find(str) ==
            IF \A j \in i..Len(str) : str[j] # c THEN 0
            ELSE CHOOSE j \in i..Len(str) :
                     str[j] = c /\ \A k \in i..(j - 1) : str[k] # c
    IN  CHOOSE r \in {Find(str) : str \in {s}} : TRUE

\* an istringstream: the characters not yet read and whether good() holds
NewStream(data) == [rest |-> data, good |-> TRUE]

\* std::getline(stream, line, delim): on a stream that is not good the line is
\* left as it was; otherwise the line is erased and filled up to the
\* delimiter (consumed) or the end of the data (eofbit, and failbit when no
\* character was extracted)
GetLine(st, delim, cur) ==
    LET Extract(in, p) ==
            IF p = 0
            THEN [line |-> in.rest,
                  st   |-> [rest |-> <<>>, good |-> FALSE],
                  got  |-> in.rest # <<>>]
            ELSE [line |-> SubSeq(in.rest, 1, p - 1),
                  st   |-> [rest |-> SubSeq(in.rest, p + 1, Len(in.rest)),
                            good |-> TRUE],
                  got  |-> TRUE]
        Read(in) ==
            IF ~in.good THEN [line |-> cur, st |-> in, got |-> FALSE]
            ELSE CHOOSE r \in {Extract(in, p) : p \in {IndexOf(in.rest, delim, 1)}} : TRUE
    IN  CHOOSE r \in {Read(in) : in \in {st}} : TRUE

RECURSIVE SplitNonEmpty(_, _)
\* while (getline(ss, tok, delim)) if (!tok.empty()) push_back(tok)
SplitNonEmpty(st, delim) ==
    LET g == GetLine(st, delim, <<>>)
    IN  IF ~g.got THEN <<>>
        ELSE (IF g.line # <<>> THEN <<g.line>> ELSE <<>>)
             \o SplitNonEmpty(g.st, delim)

RECURSIVE Join(_, _)
\* the strings of ss written one after the other, sep between them
Join(ss, sep) ==
    IF ss = <<>> THEN <<>>
    ELSE IF Len(ss) = 1 THEN ss[1]
    ELSE ss[1] \o sep \o Join(Tail(ss), sep)

\* the character codes (ASCII) of the alphabet the model uses
CharCode(c) ==
    CASE c = NL  -> 10
      [] c = "," -> 44
      [] c = "-" -> 45
      [] c = "." -> 46
      [] c = "/" -> 47
      [] IsDigit(c) -> 48 + DigitVal(c)
      [] c = ":" -> 58
      [] c = "d" -> 100
      [] c = "f" -> 102
      [] c = "g" -> 103
      [] c = "n" -> 110
      [] c = "q" -> 113
      [] c = "r" -> 114
      [] c = "x" -> 120
      [] c = "|" -> 124
      [] OTHER   -> 127

RECURSIVE StrLess(_, _)
\* std::string operator<, the order of the keys of a std::map
StrLess(a, b) ==
    IF b = <<>> THEN FALSE
    ELSE IF a = <<>> THEN TRUE
    ELSE IF CharCode(Head(a)) # CharCode(Head(b))
         THEN CharCode(Head(a)) < CharCode(Head(b))
    ELSE StrLess(Tail(a), Tail(b))

RECURSIVE SortedKeys(_)
\* the keys of a std::map in iteration order
SortedKeys(S) ==
    IF S = {} THEN <<>>
    ELSE LET k == CHOOSE x \in S : \A y \in S \ {x} : StrLess(x, y)
         IN  <<k>> \o SortedKeys(S \ {k})

(***************************************************************************)
(* ClusterConfig of src/app/arda_mpi.cpp and its wire format.              *)
(***************************************************************************)
DefaultKmerSize == 31
DefaultBatchSize == 32
Unset == 0 - 1

\* an empty std::map
EmptyMap == [k \in {} |-> <<>>]

\* m[k] = v of a std::map
MapPut(m, k, v) == [x \in DOMAIN m \cup {k} |-> IF x = k THEN v ELSE m[x]]

\* a default-constructed ClusterConfig: the member initialisers of the struct
DefaultConfig ==
    [master |-> <<>>, workers |-> <<>>,
     cuclark_dir |-> <<>>, database |-> <<>>, results_dir |-> <<>>,
     reads |-> EmptyMap,
     kmer_size |-> DefaultKmerSize, batch_size |-> DefaultBatchSize,
     min_freq_target |-> Unset, num_threads |-> Unset,
     num_devices |-> Unset, gap_iteration |-> Unset,
     sampling_factor |-> <<>>,
     tsk |-> FALSE, extended |-> FALSE, gzipped |-> FALSE, verbose |-> FALSE,
     master_processes_reads |-> TRUE, keep_local_results |-> TRUE,
     log_level |-> "LOG_INFO", log_file |-> "cluster_run.log",
     show_progress |-> TRUE]

\* every member of ClusterConfig
ConfigFields == DOMAIN DefaultConfig

\* the scalar fields in the order serialize_config writes them and
\* deserialize_config reads them, each with the way it is written
WireFields ==
    << <<"cuclark_dir", "str">>, <<"database", "str">>, <<"results_dir", "str">>,
       <<"kmer_size", "int">>, <<"batch_size", "int">>,
       <<"master_processes_reads", "bool">>, <<"keep_local_results", "bool">>,
       <<"min_freq_target", "int">>, <<"num_threads", "int">>,
       <<"num_devices", "int">>, <<"gap_iteration", "int">>,
       <<"sampling_factor", "str">>,
       <<"tsk", "bool">>, <<"extended", "bool">>, <<"gzipped", "bool">>,
       <<"verbose", "bool">> >>

\* one scalar field as serialize_config writes it, without the "\n"
WriteField(cfg, f) ==
    CASE f[2] = "str"  -> cfg[f[1]]
      [] f[2] = "int"  -> IntToStr(cfg[f[1]])
      [] f[2] = "bool" -> IF cfg[f[1]] THEN <<"1">> ELSE <<"0">>

RECURSIVE WriteFields(_, _)
WriteFields(cfg, i) ==
    IF i > Len(WireFields) THEN <<>>
    ELSE WriteField(cfg, WireFields[i]) \o <<NL>> \o WriteFields(cfg, i + 1)

RECURSIVE WriteReads(_, _)
\* "hostname:file1,file2\n" for every entry of the reads map, in key order
WriteReads(reads, keys) ==
    IF keys = <<>> THEN <<>>
    ELSE Head(keys) \o <<":">> \o Join(reads[Head(keys)], <<",">>) \o <<NL>>
         \o WriteReads(reads, Tail(keys))

\* serialize_config: the scalar fields, the number of reads entries, the entries
serialize_config(cfg) ==
    WriteFields(cfg, 1)
    \o IntToStr(Cardinality(DOMAIN cfg.reads)) \o <<NL>>
    \o WriteReads(cfg.reads, SortedKeys(DOMAIN cfg.reads))

\* one scalar field of deserialize_config: s = [cfg, line, st, threw]
ReadField(s, f) ==
    IF f[2] = "str"
    THEN LET g == GetLine(s.st, NL, s.cfg[f[1]])
         IN  [s EXCEPT !.cfg = [s.cfg EXCEPT ![f[1]] = g.line], !.st = g.st]
    ELSE LET g == GetLine(s.st, NL, s.line)
             n == Stoi(g.line)
         IN  IF f[2] = "bool"
             THEN [s EXCEPT !.cfg = [s.cfg EXCEPT ![f[1]] = (g.line = <<"1">>)],
                            !.line = g.line, !.st = g.st]
             ELSE IF n.ok
             THEN [s EXCEPT !.cfg = [s.cfg EXCEPT ![f[1]] = n.val],
                            !.line = g.line, !.st = g.st]
             ELSE [s EXCEPT !.line = g.line, !.st = g.st, !.threw = TRUE]

RECURSIVE ReadFields(_, _)
ReadFields(s, i) ==
    IF i > Len(WireFields) \/ s.threw THEN s
    ELSE CHOOSE r \in {ReadFields(t, i + 1) : t \in {ReadField(s, WireFields[i])}} : TRUE

RECURSIVE ReadReads(_, _, _)
\* for (i = 0; i < num_reads; i++): a line without ':' is skipped
ReadReads(s, i, num_reads) ==
    IF i >= num_reads THEN s
    ELSE LET g     == GetLine(s.st, NL, s.line)
             colon == IndexOf(g.line, ":", 1)
             hostname  == SubSeq(g.line, 1, colon - 1)
             files_str == SubSeq(g.line, colon + 1, Len(g.line))
             files     == SplitNonEmpty(NewStream(files_str), ",")
             s1 == [s EXCEPT !.line = g.line, !.st = g.st]
         IN  CHOOSE r \in {ReadReads(t, i + 1, num_reads) : t \in
                 {IF colon # 0
                  THEN [s1 EXCEPT !.cfg.reads = MapPut(s.cfg.reads, hostname, files)]
                  ELSE s1}} : TRUE

\* deserialize_config(data) into the g_config the process holds (old):
\* [threw, cfg], threw when a std::stoi throws (nothing catches it)
deserialize_config(old, data) ==
    LET s0 == [cfg |-> old, line |-> <<>>, st |-> NewStream(data), threw |-> FALSE]
        Rest(s1) ==
            LET g  == GetLine(s1.st, NL, s1.line)
                n  == Stoi(g.line)
                s2 == [s1 EXCEPT !.line = g.line, !.st = g.st]
            IN  IF s1.threw THEN [threw |-> TRUE, cfg |-> s1.cfg]
                ELSE IF ~n.ok THEN [threw |-> TRUE, cfg |-> s1.cfg]
                ELSE [threw |-> FALSE, cfg |-> ReadReads(s2, 0, n.val).cfg]
    IN  CHOOSE r \in {Rest(t) : t \in {ReadFields(s0, 1)}} : TRUE

(***************************************************************************)
(* NodeResult and its wire format (src/app/arda_mpi.cpp).                  *)
(***************************************************************************)
\* a default-constructed NodeResult
NewResult ==
    [hostname |-> <<>>, success |-> FALSE, result_file |-> <<>>,
     abundance_file |-> <<>>, reads_processed |-> 0, reads_classified |-> 0,
     elapsed_seconds |-> 0, error_message |-> <<>>]

\* operator<<(double) of a whole number of seconds below 10^6: its digits
DoubleToStr(x) == IntToStr(x)

\* NodeResult::serialize: the eight fields, '|' between them
NodeResult_serialize(r) ==
    r.hostname \o <<"|">> \o (IF r.success THEN <<"1">> ELSE <<"0">>) \o <<"|">>
    \o r.result_file \o <<"|">> \o r.abundance_file \o <<"|">>
    \o IntToStr(r.reads_processed) \o <<"|">>
    \o IntToStr(r.reads_classified) \o <<"|">>
    \o DoubleToStr(r.elapsed_seconds) \o <<"|">> \o r.error_message

\* stoi(token.empty() ? "0" : token), and stod alike on whole numbers
StoiOrZero(token) == Stoi(IF token = <<>> THEN <<"0">> ELSE token)

\* the fields of a NodeResult in the order of the wire, each with the way
\* deserialize reads it: into the member itself, or into token and converted
ResultWire ==
    << <<"hostname", "str">>, <<"success", "flag">>, <<"result_file", "str">>,
       <<"abundance_file", "str">>, <<"reads_processed", "num">>,
       <<"reads_classified", "num">>, <<"elapsed_seconds", "num">>,
       <<"error_message", "str">> >>

\* one getline(iss, x, '|') of NodeResult::deserialize and the conversion
\* that follows it: s = [r, token, st, threw]
ReadResultField(s, f) ==
    IF f[2] = "str"
    THEN LET g == GetLine(s.st, "|", s.r[f[1]])
         IN  [s EXCEPT !.r = [s.r EXCEPT ![f[1]] = g.line], !.st = g.st]
    ELSE LET g == GetLine(s.st, "|", s.token)
             n == StoiOrZero(g.line)
         IN  IF f[2] = "flag"
             THEN [s EXCEPT !.r = [s.r EXCEPT ![f[1]] = (g.line = <<"1">>)],
                            !.token = g.line, !.st = g.st]
             ELSE IF n.ok
             THEN [s EXCEPT !.r = [s.r EXCEPT ![f[1]] = n.val],
                            !.token = g.line, !.st = g.st]
             ELSE [s EXCEPT !.token = g.line, !.st = g.st, !.threw = TRUE]

RECURSIVE ReadResultFields(_, _)
ReadResultFields(s, i) ==
    IF i > Len(ResultWire) \/ s.threw THEN s
    ELSE CHOOSE r \in {ReadResultFields(t, i + 1) : t \in
             {ReadResultField(s, ResultWire[i])}} : TRUE

\* NodeResult::deserialize: eight getline(iss, x, '|') in the field order;
\* [threw, r], threw when a stoi or the stod throws
NodeResult_deserialize(data) ==
    LET s0 == [r |-> NewResult, token |-> <<>>, st |-> NewStream(data),
               threw |-> FALSE]
    IN  CHOOSE r \in {[threw |-> s.threw, r |-> s.r] : s \in {ReadResultFields(s0, 1)}} : TRUE

(***************************************************************************)
(* ClusterConfig of src/arda_mpi.cpp (the legacy program).                 *)
(***************************************************************************)
LegacyBatchSize == 50000
LegacyMaxRetries == 3
LegacySshTimeout == 30

LegacyDefaultConfig ==
    [master |-> <<>>, workers |-> <<>>,
     cuclark_dir |-> <<>>, database |-> <<>>, results_dir |-> <<>>,
     reads |-> EmptyMap,
     kmer_size |-> DefaultKmerSize, batch_size |-> LegacyBatchSize,
     master_processes_reads |-> TRUE, retry_failed_nodes |-> TRUE,
     max_retries |-> LegacyMaxRetries, collect_results_to_master |-> TRUE,
     keep_local_results |-> TRUE, ssh_timeout |-> LegacySshTimeout,
     log_level |-> "LOG_INFO", log_file |-> "cluster_run.log",
     show_progress |-> TRUE]

(***************************************************************************)
(* The configuration files the runs are started with.  A file is given by  *)
(* the values it sets; load_config of either program takes what it knows.  *)
(***************************************************************************)
\* the host names: n0 is the master, n1 .. n<MaxWorkers> the workers
Host(i) == <<"n", Digits[i + 1]>>

WorkerList == [i \in 1..MaxWorkers |-> Host(i)]

AllHosts == {Host(i) : i \in 0..MaxWorkers}

\* the read files of node i: paired-end on the odd nodes, single-end on the others
ReadsOf(i) ==
    IF i % 2 = 1
    THEN << <<"/", "p", Digits[i + 1], ".", "fq">>, <<"/", "q", Digits[i + 1], ".", "fq">> >>
    ELSE << <<"/", "s", Digits[i + 1], ".", "fq">> >>

\* the [reads] section naming the nodes of I
ReadsFor(I) == [h \in {Host(i) : i \in I} |->
                   ReadsOf(CHOOSE i \in I : Host(i) = h)]

\* the [reads] sections of the files: every node, every node but the master,
\* every node but the last worker
ReadsChoices ==
    {ReadsFor(0..MaxWorkers), ReadsFor(1..MaxWorkers), ReadsFor(0..(MaxWorkers - 1))}

ConfigFiles ==
    [readable : {TRUE}, master : {Host(0)}, workers : {WorkerList},
     cuclark_dir : {<<"/", "cu">>}, database : {<<"/", "db">>},
     results_dir : {<<"res">>},
     reads : ReadsChoices,
     master_processes_reads : BOOLEAN,
     retry_failed_nodes : {TRUE},
     max_retries : {MaxRetriesCfg},
     collect_results_to_master : {TRUE},
     log_level : {"LOG_WARN"}]

\* a valid file: every node has reads, the master processes its own
BaseFile ==
    [readable |-> TRUE, master |-> Host(0), workers |-> WorkerList,
     cuclark_dir |-> <<"/", "cu">>, database |-> <<"/", "db">>,
     results_dir |-> <<"res">>,
     reads |-> ReadsFor(0..MaxWorkers),
     master_processes_reads |-> TRUE,
     retry_failed_nodes |-> TRUE,
     max_retries |-> MaxRetriesCfg,
     collect_results_to_master |-> TRUE,
     log_level |-> "LOG_WARN"]

\* files that cannot be read, or lack a required value (an absent key reads
\* as the empty string)
BrokenFiles ==
    {[BaseFile EXCEPT !.readable = FALSE],
     [BaseFile EXCEPT !.master = <<>>],
     [BaseFile EXCEPT !.workers = <<>>],
     [BaseFile EXCEPT !.cuclark_dir = <<>>],
     [BaseFile EXCEPT !.database = <<>>]}

\* files with an odd topology or odd read lists: the master listed among the
\* workers, a [reads] key that names no node of the cluster, a node with
\* three read files, a node whose read list is empty, the workers listed
\* from the last to the first (the last two with reads), a [reads] key with
\* a ':' in it ("n:x = ..." is split at its '='), no [reads] section
OddFiles ==
    LET StrangerHost == <<"n", "x">>
        ColonHost == <<"n", ":", "x">>
        ExtraRead == <<"/", "r", ".", "fq">>
    IN
    {[BaseFile EXCEPT !.workers = <<Host(0)>> \o SubSeq(WorkerList, 1, MaxWorkers - 1),
                      !.reads = ReadsFor(0..(MaxWorkers - 1))],
     [BaseFile EXCEPT !.reads = MapPut(BaseFile.reads, StrangerHost, ReadsOf(0))],
     [BaseFile EXCEPT !.reads = MapPut(BaseFile.reads, Host(1), ReadsOf(1) \o <<ExtraRead>>)],
     [BaseFile EXCEPT !.reads = MapPut(BaseFile.reads, Host(1), <<>>)],
     [BaseFile EXCEPT !.workers = [i \in 1..MaxWorkers |-> Host(MaxWorkers + 1 - i)],
                      !.reads = ReadsFor((MaxWorkers - 1)..MaxWorkers),
                      !.master_processes_reads = FALSE],
     [BaseFile EXCEPT !.reads = MapPut(ReadsFor({1}), ColonHost, ReadsOf(0)),
                      !.master_processes_reads = FALSE],
     [BaseFile EXCEPT !.reads = EmptyMap]}

\* every file a run may be started with
StartFiles == ConfigFiles \cup BrokenFiles \cup OddFiles

\* where load_config returns (the checks are the same in both programs): at
\* the parse, at the first required value that is empty, or at its end
LoadStage(f) ==
    IF ~f.readable THEN "parse"
    ELSE IF f.master = <<>> THEN "master"
    ELSE IF f.workers = <<>> THEN "workers"
    ELSE IF f.cuclark_dir = <<>> THEN "cuclark_dir"
    ELSE IF f.database = <<>> THEN "database"
    ELSE "ok"

\* the return value of load_config
load_config_ok(f) == LoadStage(f) = "ok"

\* the reads map src/app/arda_mpi.cpp builds: every key of the [reads] section
\* whose list is not empty
AppReads(f) ==
    [h \in {k \in DOMAIN f.reads : f.reads[k] # <<>>} |-> f.reads[h]]

\* the reads map src/arda_mpi.cpp builds: the workers and the master are
\* looked up, a non-empty list is stored
LegacyReads(f) ==
    [h \in {k \in DOMAIN f.reads :
               /\ f.reads[k] # <<>>
               /\ (k = f.master \/ \E i \in 1..Len(f.workers) : f.workers[i] = k)}
        |-> f.reads[h]]

\* g_config after load_config of src/app/arda_mpi.cpp on a default g_config:
\* what was assigned before the function returned
load_config(f) ==
    LET stage == LoadStage(f)
        c1 == [DefaultConfig EXCEPT !.master = f.master, !.workers = f.workers]
        c2 == [c1 EXCEPT !.cuclark_dir = f.cuclark_dir, !.database = f.database,
                         !.results_dir = f.results_dir]
    IN  CASE stage = "parse" -> DefaultConfig
          [] stage \in {"master", "workers"} -> c1
          [] stage \in {"cuclark_dir", "database"} -> c2
          [] OTHER ->
               [c2 EXCEPT
                   !.reads = AppReads(f),
                   !.master_processes_reads = f.master_processes_reads,
                   !.log_level = f.log_level]

\* g_config after load_config of src/arda_mpi.cpp on a default g_config
legacy_load_config(f) ==
    LET stage == LoadStage(f)
        c1 == [LegacyDefaultConfig EXCEPT !.master = f.master, !.workers = f.workers]
        c2 == [c1 EXCEPT !.cuclark_dir = f.cuclark_dir, !.database = f.database,
                         !.results_dir = f.results_dir]
    IN  CASE stage = "parse" -> LegacyDefaultConfig
          [] stage \in {"master", "workers"} -> c1
          [] stage \in {"cuclark_dir", "database"} -> c2
          [] OTHER ->
               [c2 EXCEPT
                   !.reads = LegacyReads(f),
                   !.master_processes_reads = f.master_processes_reads,
                   !.retry_failed_nodes = f.retry_failed_nodes,
                   !.max_retries = f.max_retries,
                   !.collect_results_to_master = f.collect_results_to_master,
                   !.log_level = f.log_level]

RECURSIVE SelectSeq2(_, _)
\* the workers of ws that have an entry in the reads map, in their order
SelectSeq2(ws, reads) ==
    IF ws = <<>> THEN <<>>
    ELSE (IF Head(ws) \in DOMAIN reads THEN <<Head(ws)>> ELSE <<>>)
         \o SelectSeq2(Tail(ws), reads)

\* generate_hostfile of src/app/arda_mpi.cpp: the master, then every worker
\* with configured reads; mpirun starts rank i on line i + 1 (slots=1)
generate_hostfile(cfg) == <<cfg.master>> \o SelectSeq2(cfg.workers, cfg.reads)

\* launch_mpi: there is work when a worker has reads or the master has work
HasWork(cfg) ==
    \/ SelectSeq2(cfg.workers, cfg.reads) # <<>>
    \/ cfg.master_processes_reads /\ cfg.master \in DOMAIN cfg.reads

(***************************************************************************)
(* JobRunner: run_classification_local.                                    *)
(***************************************************************************)
\* string::find_last_of(c): the last position of c in s at or before i, 0 for npos
LastIndexOf(s, c, i) ==
    LET Find(str) ==
            IF \A j \in 1..i : str[j] # c THEN 0
            ELSE CHOOSE j \in 1..i :
                     str[j] = c /\ \A k \in (j + 1)..i : str[k] # c
    IN  CHOOSE r \in {Find(str) : str \in {s}} : TRUE

\* the output base name of a read file: directory and last extension stripped
ResultName(read_file) ==
    LET Basename(file) ==
            LET last_slash == LastIndexOf(file, "/", Len(file))
            IN  IF last_slash # 0
                THEN SubSeq(file, last_slash + 1, Len(file))
                ELSE file
        Stem(basename) ==
            LET dot_pos == LastIndexOf(basename, ".", Len(basename))
            IN  IF dot_pos # 0 THEN SubSeq(basename, 1, dot_pos - 1) ELSE basename
    IN  CHOOSE r \in {Stem(b) : b \in {CHOOSE q \in {Basename(f) : f \in {read_file}} : TRUE}} : TRUE

\* cuclark_dir/results_dir/hostname_resultname
ResultPath(cfg, hostname, read_file) ==
    cfg.cuclark_dir \o <<"/">> \o cfg.results_dir \o <<"/">>
    \o hostname \o <<"_">> \o ResultName(read_file)

\* whether reads.find(hostname) finds a non-empty list
HasReads(cfg, hostname) ==
    hostname \in DOMAIN cfg.reads /\ cfg.reads[hostname] # <<>>

\* the exit statuses an external command returns with
ExitCodes == {0, 1}

MsgNoReadsLocal == <<"No reads configured for this node">>

MsgClassifyFailed(rc) == <<"Classification failed with exit code ">> \o IntToStr(rc)

MsgReadNotFound(read_file) == <<"Read file not found", ":", " ">> \o read_file

(***************************************************************************)
(* The state of a run.                                                     *)
(***************************************************************************)
VARIABLES
    program,        \* "app" (src/app/arda_mpi.cpp) or "legacy" (src/arda_mpi.cpp)
    world_size,     \* MPI_Comm_size
    preflight_only, \* the -p flag of the command line
    cfg_file,       \* the configuration file the run was started with
    g_config,       \* g_config of the process of each rank
    pc,             \* where the process of each rank is
    bcast,          \* MPI_Bcast: whether rank 0 has sent, and the payload
    barrier,        \* the ranks that have entered MPI_Barrier
    chan,           \* the messages each rank has sent to rank 0, not yet received
    my_result,      \* my_result / result / local_result of each rank
    did_process,    \* did_process of rank 0
    all_results,    \* all_results of rank 0
    origin,         \* for each entry of all_results, the host it was collected for
    src,            \* the loop variable of rank 0's receive loop / node loop
    len,            \* the length rank 0 received for the next payload
    node_statuses,  \* node_statuses of run_master
    probe_log,      \* for each entry of node_statuses, the SSH probes check_node issued
    ready_nodes,    \* ready_nodes of run_master
    merge_calls,    \* how often the merge command was invoked
    merge_ok,       \* whether a merge command has exited 0
    reports,        \* the reports written so far, each as its blocks and summary
    job_runs,       \* for each host, how often JobRunner was started on it
    classify_log,   \* for each host, the classify commands invoked: mode and files
    abundance_calls,\* for each host, how often the abundance command was invoked
    abundance_fails,\* for each host, how often it exited non-zero
    transfers,      \* the files collect_results has tried to copy: host, file, exit code of scp
    classify_fails, \* for each host, how often it exited non-zero
    exit_code,      \* the exit code of the process of each rank, -1 while it runs
    launcher        \* launch_mpi of src/app/arda_mpi.cpp, the process the user starts

vars == <<program, world_size, preflight_only, cfg_file, g_config, pc, bcast,
          barrier, chan, my_result, did_process, all_results, origin, src, len,
          node_statuses, ready_nodes, merge_calls, merge_ok, reports, job_runs,
          classify_log, abundance_calls, transfers, classify_fails, exit_code,
          launcher, abundance_fails, probe_log>>

AllRanks == 0..MaxWorkers

Ranks == 0..(world_size - 1)

\* the host the process of rank r runs on: app, the lines of the generated
\* hostfile; legacy, the master and then the workers
\* the hostfile launch_mpi writes for each configuration file
Hostfiles == [f \in StartFiles |-> generate_hostfile(load_config(f))]

\* gethostname() in the process of rank r: src/app/arda_mpi.cpp is started by
\* mpirun on line r + 1 of the hostfile, src/arda_mpi.cpp on node r
HostOf(r) ==
    IF program = "app" THEN Hostfiles[cfg_file][r + 1]
    ELSE Host(r)

Running == 0 - 1

\* launch_mpi before its first statement: its g_config, the hostfile it has
\* written, the index of its probe loops, the SSH probes it has issued, the
\* mpirun commands it has issued, the file the ranks find under
\* abs_config_file, its return value
NewLauncher(f) ==
    [pc |-> "load", cfg |-> DefaultConfig, hostfile |-> <<>>, i |-> 1,
     ssh |-> <<>>, mpirun |-> 0, abs_config_file |-> f, exit |-> Running]

\* launch_mpi waiting in system(mpirun ...) for the cohort it has started:
\* the SSH connectivity probes and then the binary probes of the workers in
\* the hostfile were all answered well
Launched(f) ==
    LET ws == Tail(Hostfiles[f])
    IN  [pc |-> "wait", cfg |-> load_config(f), hostfile |-> Hostfiles[f], i |-> 1,
         ssh |-> [k \in 1..Len(ws) |->
                     [host |-> ws[k], probe |-> "hostname", ok |-> TRUE]]
                 \o [k \in 1..Len(ws) |->
                     [host |-> ws[k], probe |-> "test -x", ok |-> TRUE]],
         mpirun |-> 1, abs_config_file |-> f, exit |-> Running]

InitCommon ==
    /\ bcast = [sent |-> FALSE, data |-> <<>>, got |-> [r \in AllRanks |-> <<>>]]
    /\ barrier = {}
    /\ chan = [r \in AllRanks |-> <<>>]
    /\ my_result = [r \in AllRanks |-> NewResult]
    /\ did_process = FALSE
    /\ all_results = <<>>
    /\ origin = <<>>
    /\ src = 0
    /\ len = 0
    /\ node_statuses = <<>>
    /\ probe_log = <<>>
    /\ ready_nodes = <<>>
    /\ merge_calls = 0
    /\ merge_ok = FALSE
    /\ reports = <<>>
    /\ job_runs = [h \in AllHosts |-> 0]
    /\ classify_log = [h \in AllHosts |-> <<>>]
    /\ abundance_calls = [h \in AllHosts |-> 0]
    /\ abundance_fails = [h \in AllHosts |-> 0]
    /\ transfers = {}
    /\ classify_fails = [h \in AllHosts |-> 0]
    /\ exit_code = [r \in AllRanks |-> Running]

\* src/app/arda_mpi.cpp: launch_mpi has loaded the file, found work and
\* started one rank per line of the hostfile; only rank 0 loads the file again
InitApp ==
    /\ program = "app"
    /\ cfg_file \in ConfigFiles
    /\ InitCommon
    /\ launcher = Launched(cfg_file)
    /\ HasWork(load_config(cfg_file))
    /\ world_size = Len(Hostfiles[cfg_file])
    /\ preflight_only = FALSE
    /\ g_config = [r \in AllRanks |-> DefaultConfig]
    /\ pc = [r \in AllRanks |->
               IF r >= world_size THEN "absent"
               ELSE IF r = 0 THEN "load" ELSE "bcast"]

(***************************************************************************)
(* src/app/arda_mpi.cpp: run_mpi_mode.                                     *)
(***************************************************************************)
\* rank 0: load_config of the file under abs_config_file, logging set up; when
\* load_config fails, MPI_Abort(MPI_COMM_WORLD, 1) ends every process of the
\* cohort
app_load_config ==
    /\ program = "app" /\ pc[0] = "load"
    /\ g_config' = [g_config EXCEPT ![0] = load_config(launcher.abs_config_file)]
    /\ IF load_config_ok(launcher.abs_config_file)
       THEN /\ pc' = [pc EXCEPT ![0] = "bcast"]
            /\ UNCHANGED exit_code
       ELSE /\ pc' = [r \in AllRanks |-> IF r \in Ranks THEN "aborted" ELSE pc[r]]
            /\ exit_code' = [r \in AllRanks |->
                                IF r \in Ranks THEN 1 ELSE exit_code[r]]
    /\ UNCHANGED <<launcher, program, world_size, preflight_only, cfg_file, bcast, barrier,
                   chan, my_result, did_process, all_results, origin, src, len,
                   node_statuses, probe_log, ready_nodes, merge_calls, merge_ok, reports, job_runs,
                   classify_log, abundance_calls, abundance_fails, transfers, classify_fails>>

\* what a non-root rank does with the payload the MPI_Bcast left in its
\* buffer: deserialize_config, and an uncaught exception ends the process
ReceiveConfig(r, data) ==
    /\ bcast.sent
    /\ \E d \in {deserialize_config(g_config[r], data)} :
          /\ g_config' = [g_config EXCEPT ![r] = d.cfg]
          /\ pc' = [pc EXCEPT ![r] = IF d.threw THEN "crashed" ELSE "barrier"]
    /\ bcast' = [bcast EXCEPT !.got[r] = data]

\* broadcast_config: rank 0 serializes and broadcasts length and payload; the
\* others receive both (after rank 0 has sent) and deserialize
broadcast_config(r) ==
    /\ program = "app" /\ pc[r] = "bcast"
    /\ IF r = 0
       THEN /\ bcast' = [bcast EXCEPT !.sent = TRUE,
                                      !.data = serialize_config(g_config[0])]
            /\ pc' = [pc EXCEPT ![0] = "barrier"]
            /\ UNCHANGED g_config
       ELSE ReceiveConfig(r, bcast.data)
    /\ UNCHANGED <<launcher, program, world_size, preflight_only, cfg_file, barrier,
                   chan, my_result, did_process, all_results, origin, src, len,
                   node_statuses, probe_log, ready_nodes, merge_calls, merge_ok, reports, job_runs,
                   classify_log, abundance_calls, abundance_fails, transfers, classify_fails, exit_code>>

\* MPI_Barrier, entering
barrier_enter(r) ==
    /\ program = "app" /\ pc[r] = "barrier"
    /\ barrier' = barrier \cup {r}
    /\ pc' = [pc EXCEPT ![r] = "sync"]
    /\ UNCHANGED <<launcher, program, world_size, preflight_only, cfg_file, g_config, bcast,
                   chan, my_result, did_process, all_results, origin, src, len,
                   node_statuses, probe_log, ready_nodes, merge_calls, merge_ok, reports, job_runs,
                   classify_log, abundance_calls, abundance_fails, transfers, classify_fails, exit_code>>

\* the step after the barrier: the master that does not process reads goes
\* on to gather, everyone else to run_classification_local
AfterBarrier(r) ==
    IF r = 0 /\ ~g_config[0].master_processes_reads THEN "gather" ELSE "job"

\* barrier_leave that waits for MaxWorkers + 1 processes whatever the size of
\* the communicator
barrier_leave_full(r) ==
    /\ program = "app" /\ pc[r] = "sync"
    /\ barrier = AllRanks
    /\ pc' = [pc EXCEPT ![r] = AfterBarrier(r)]
    /\ UNCHANGED <<launcher, program, world_size, preflight_only, cfg_file, g_config, bcast,
                   barrier, chan, my_result, did_process, all_results, origin, src,
                   len, node_statuses, probe_log, ready_nodes, merge_calls, merge_ok, reports, job_runs,
                   classify_log, abundance_calls, abundance_fails, transfers, classify_fails, exit_code>>

\* MPI_Barrier, leaving: every rank of the communicator has entered
barrier_leave(r) ==
    /\ program = "app" /\ pc[r] = "sync"
    /\ barrier = Ranks
    /\ pc' = [pc EXCEPT ![r] = AfterBarrier(r)]
    /\ UNCHANGED <<launcher, program, world_size, preflight_only, cfg_file, g_config, bcast,
                   barrier, chan, my_result, did_process, all_results, origin, src,
                   len, node_statuses, probe_log, ready_nodes, merge_calls, merge_ok, reports, job_runs,
                   classify_log, abundance_calls, abundance_fails, transfers, classify_fails, exit_code>>

\* where a rank goes when run_classification_local has returned
AfterJob(r) == IF r = 0 THEN "gather" ELSE "send_len"

\* the classify command of src/app/arda_mpi.cpp: -P file1 file2 for two read
\* files, -O file1 otherwise
ClassifyCommand(node_reads) ==
    IF Len(node_reads) = 2
    THEN [mode |-> "paired", files |-> <<node_reads[1], node_reads[2]>>]
    ELSE [mode |-> "single", files |-> <<node_reads[1]>>]

\* run_classification_local up to the classify command: the reads are looked
\* up, the read files are checked with stat (missing = the first file that is
\* not there, 0 when all are), the classify command is started
app_job_begin(r) ==
    /\ program = "app" /\ pc[r] = "job"
    /\ LET h == HostOf(r)
           cfg == g_config[r]
           res == [NewResult EXCEPT !.hostname = h]
       IN  /\ job_runs' = [job_runs EXCEPT ![h] = @ + 1]
           /\ IF ~HasReads(cfg, h)
              THEN /\ my_result' = [my_result EXCEPT ![r] =
                                      [res EXCEPT !.error_message = MsgNoReadsLocal]]
                   /\ pc' = [pc EXCEPT ![r] = AfterJob(r)]
                   /\ UNCHANGED classify_log
              ELSE \E missing \in 0..Len(cfg.reads[h]) :
                     IF missing # 0
                     THEN /\ my_result' = [my_result EXCEPT ![r] =
                                [res EXCEPT !.error_message =
                                    MsgReadNotFound(cfg.reads[h][missing])]]
                          /\ pc' = [pc EXCEPT ![r] = AfterJob(r)]
                          /\ UNCHANGED classify_log
                     ELSE /\ my_result' = [my_result EXCEPT ![r] = res]
                          /\ pc' = [pc EXCEPT ![r] = "classify"]
                          /\ classify_log' = [classify_log EXCEPT ![h] =
                                Append(@, ClassifyCommand(cfg.reads[h]))]
    /\ did_process' = IF r = 0 /\ pc'[0] = "gather" THEN TRUE ELSE did_process
    /\ UNCHANGED <<launcher, program, world_size, preflight_only, cfg_file, g_config, bcast,
                   barrier, chan, all_results, origin, src, len, node_statuses, probe_log,
                   ready_nodes, merge_calls, merge_ok, reports, classify_fails,
                   abundance_calls, abundance_fails, transfers, exit_code>>

\* app_classify_return where a failed classify command ends the process
\* instead of the job
classify_return_fatal(r) ==
    /\ program = "app" /\ pc[r] = "classify"
    /\ LET h == HostOf(r)
           cfg == g_config[r]
           result_path == ResultPath(cfg, h, cfg.reads[h][1])
       IN  \E rc \in ExitCodes :
             IF rc # 0
             THEN /\ my_result' = [my_result EXCEPT ![r].error_message =
                                      MsgClassifyFailed(rc)]
                  /\ classify_fails' = [classify_fails EXCEPT ![h] = @ + 1]
                  /\ pc' = [pc EXCEPT ![r] = "crashed"]
                  /\ UNCHANGED <<abundance_calls, abundance_fails>>
             ELSE /\ my_result' = [my_result EXCEPT ![r].result_file =
                                      result_path \o <<".", "csv">>]
                  /\ pc' = [pc EXCEPT ![r] = "abundance"]
                  /\ abundance_calls' = [abundance_calls EXCEPT ![h] = @ + 1]
                  /\ UNCHANGED <<classify_fails, abundance_fails>>
    /\ UNCHANGED <<launcher, program, world_size, preflight_only, cfg_file, g_config, bcast,
                   barrier, chan, did_process, all_results, origin, src, len,
                   node_statuses, probe_log, ready_nodes, merge_calls, merge_ok, reports,
                   job_runs, classify_log, transfers, exit_code>>

\* system(classify) returns: a non-zero status ends the job with an error,
\* otherwise the abundance command is started
app_classify_return(r) ==
    /\ program = "app" /\ pc[r] = "classify"
    /\ LET h == HostOf(r)
           cfg == g_config[r]
           result_path == ResultPath(cfg, h, cfg.reads[h][1])
       IN  \E rc \in ExitCodes :
             IF rc # 0
             THEN /\ my_result' = [my_result EXCEPT ![r].error_message =
                                      MsgClassifyFailed(rc)]
                  /\ classify_fails' = [classify_fails EXCEPT ![h] = @ + 1]
                  /\ pc' = [pc EXCEPT ![r] = AfterJob(r)]
                  /\ UNCHANGED <<abundance_calls, abundance_fails>>
             ELSE /\ my_result' = [my_result EXCEPT ![r].result_file =
                                      result_path \o <<".", "csv">>]
                  /\ pc' = [pc EXCEPT ![r] = "abundance"]
                  /\ abundance_calls' = [abundance_calls EXCEPT ![h] = @ + 1]
                  /\ UNCHANGED <<classify_fails, abundance_fails>>
    /\ did_process' = IF r = 0 /\ pc'[0] = "gather" THEN TRUE ELSE did_process
    /\ UNCHANGED <<launcher, program, world_size, preflight_only, cfg_file, g_config, bcast,
                   barrier, chan, all_results, origin, src, len,
                   node_statuses, probe_log, ready_nodes, merge_calls, merge_ok, reports,
                   job_runs, classify_log, transfers, exit_code>>

\* system(abundance) returns: its failure only leaves abundance_file empty;
\* the elapsed time is taken and the job is a success
app_abundance_return(r) ==
    /\ program = "app" /\ pc[r] = "abundance"
    /\ LET h == HostOf(r)
           cfg == g_config[r]
           result_path == ResultPath(cfg, h, cfg.reads[h][1])
       IN  \E rc \in ExitCodes, elapsed \in 0..MaxElapsed :
             /\ my_result' = [my_result EXCEPT ![r] =
                   [@ EXCEPT !.abundance_file =
                                 IF rc = 0 THEN result_path \o <<"_abundance", ".", "txt">>
                                 ELSE <<>>,
                             !.elapsed_seconds = elapsed,
                             !.success = TRUE]]
             /\ abundance_fails' = [abundance_fails EXCEPT ![h] =
                                       IF rc = 0 THEN @ ELSE @ + 1]
    /\ pc' = [pc EXCEPT ![r] = AfterJob(r)]
    /\ did_process' = IF r = 0 THEN TRUE ELSE did_process
    /\ UNCHANGED <<launcher, program, world_size, preflight_only, cfg_file, g_config, bcast,
                   barrier, chan, all_results, origin, src, len,
                   node_statuses, probe_log, ready_nodes, merge_calls, merge_ok, reports,
                   job_runs, classify_log, classify_fails, abundance_calls,
                   transfers, exit_code>>

(***************************************************************************)
(* src/app/arda_mpi.cpp: results to rank 0, merge, report.                 *)
(***************************************************************************)
\* send_result_to_master, first MPI_Send: the length of the serialized result.
\* A standard-mode send of a short message returns once the message is buffered.
send_result_len(r) ==
    /\ program = "app" /\ pc[r] = "send_len"
    /\ chan' = [chan EXCEPT ![r] =
                  Append(@, [tag |-> "TAG_RESULT_DATA",
                             body |-> Len(NodeResult_serialize(my_result[r]))])]
    /\ pc' = [pc EXCEPT ![r] = "send_data"]
    /\ UNCHANGED <<launcher, program, world_size, preflight_only, cfg_file, g_config, bcast,
                   barrier, my_result, did_process, all_results, origin, src, len,
                   node_statuses, probe_log, ready_nodes, merge_calls, merge_ok, reports,
                   job_runs, classify_log, classify_fails, abundance_calls, abundance_fails,
                   transfers, exit_code>>

\* send_result_to_master, second MPI_Send: the serialized result; then
\* run_mpi_mode returns 0 and main calls MPI_Finalize
send_result_data(r) ==
    /\ program = "app" /\ pc[r] = "send_data"
    /\ chan' = [chan EXCEPT ![r] =
                  Append(@, [tag |-> "TAG_RESULT_DATA",
                             body |-> NodeResult_serialize(my_result[r])])]
    /\ pc' = [pc EXCEPT ![r] = "done"]
    /\ exit_code' = [exit_code EXCEPT ![r] = 0]
    /\ UNCHANGED <<launcher, program, world_size, preflight_only, cfg_file, g_config, bcast,
                   barrier, my_result, did_process, all_results, origin, src, len,
                   node_statuses, probe_log, ready_nodes, merge_calls, merge_ok, reports,
                   job_runs, classify_log, classify_fails, abundance_calls, abundance_fails,
                   transfers>>

\* app_gather_begin with a receive loop that starts at rank 2
gather_begin_from_two ==
    /\ program = "app" /\ pc[0] = "gather"
    /\ all_results' = IF did_process THEN Append(all_results, my_result[0])
                      ELSE all_results
    /\ origin' = IF did_process THEN Append(origin, HostOf(0)) ELSE origin
    /\ src' = 2
    /\ pc' = [pc EXCEPT ![0] = IF 2 < world_size THEN "recv_len" ELSE "merge"]
    /\ UNCHANGED <<launcher, program, world_size, preflight_only, cfg_file, g_config, bcast,
                   barrier, chan, my_result, did_process, len,
                   node_statuses, probe_log, ready_nodes, merge_calls, merge_ok, reports,
                   job_runs, classify_log, classify_fails, abundance_calls, abundance_fails,
                   transfers, exit_code>>

\* app_gather_begin that records my_result of rank 0 whether or not rank 0
\* ran the job
gather_begin_own_always ==
    /\ program = "app" /\ pc[0] = "gather"
    /\ all_results' = Append(all_results, my_result[0])
    /\ origin' = Append(origin, HostOf(0))
    /\ src' = 1
    /\ pc' = [pc EXCEPT ![0] = IF 1 < world_size THEN "recv_len" ELSE "merge"]
    /\ UNCHANGED <<launcher, program, world_size, preflight_only, cfg_file, g_config, bcast,
                   barrier, chan, my_result, did_process, len,
                   node_statuses, probe_log, ready_nodes, merge_calls, merge_ok, reports,
                   job_runs, classify_log, classify_fails, abundance_calls, abundance_fails,
                   transfers, exit_code>>

\* rank 0 after the job: its own result first, if it processed reads; then
\* the receive loop starts with src = 1
app_gather_begin ==
    /\ program = "app" /\ pc[0] = "gather"
    /\ all_results' = IF did_process THEN Append(all_results, my_result[0])
                      ELSE all_results
    /\ origin' = IF did_process THEN Append(origin, HostOf(0)) ELSE origin
    /\ src' = 1
    /\ pc' = [pc EXCEPT ![0] = IF 1 < world_size THEN "recv_len" ELSE "merge"]
    /\ UNCHANGED <<launcher, program, world_size, preflight_only, cfg_file, g_config, bcast,
                   barrier, chan, my_result, did_process, len,
                   node_statuses, probe_log, ready_nodes, merge_calls, merge_ok, reports,
                   job_runs, classify_log, classify_fails, abundance_calls, abundance_fails,
                   transfers, exit_code>>

\* receive_result_from_worker(src), first MPI_Recv: blocks until rank src's
\* next message is there
receive_result_len ==
    /\ program = "app" /\ pc[0] = "recv_len"
    /\ chan[src] # <<>>
    /\ len' = Head(chan[src]).body
    /\ chan' = [chan EXCEPT ![src] = Tail(@)]
    /\ pc' = [pc EXCEPT ![0] = "recv_data"]
    /\ UNCHANGED <<launcher, program, world_size, preflight_only, cfg_file, g_config, bcast,
                   barrier, my_result, did_process, all_results, origin, src,
                   node_statuses, probe_log, ready_nodes, merge_calls, merge_ok, reports,
                   job_runs, classify_log, classify_fails, abundance_calls, abundance_fails,
                   transfers, exit_code>>

\* receive_result_data with a second MPI_Recv that takes the payload of any
\* worker that has sent one (at most len characters of it)
receive_result_data_any_source ==
    /\ program = "app" /\ pc[0] = "recv_data"
    /\ \E k \in Ranks \ {0} :
          /\ chan[k] # <<>> /\ pc[k] = "done"
          /\ LET body == chan[k][Len(chan[k])].body
                 n == IF len < Len(body) THEN len ELSE Len(body)
             IN  \E d \in {NodeResult_deserialize(SubSeq(body, 1, n))} :
                    IF d.threw
                    THEN /\ pc' = [pc EXCEPT ![0] = "crashed"]
                         /\ UNCHANGED <<all_results, origin, src>>
                    ELSE /\ all_results' = Append(all_results, d.r)
                         /\ origin' = Append(origin, HostOf(src))
                         /\ src' = src + 1
                         /\ pc' = [pc EXCEPT ![0] =
                                     IF src + 1 < world_size THEN "recv_len" ELSE "merge"]
          /\ chan' = [chan EXCEPT ![k] = SubSeq(@, 1, Len(@) - 1)]
    /\ UNCHANGED <<launcher, program, world_size, preflight_only, cfg_file, g_config, bcast,
                   barrier, my_result, did_process, len,
                   node_statuses, probe_log, ready_nodes, merge_calls, merge_ok, reports,
                   job_runs, classify_log, classify_fails, abundance_calls, abundance_fails,
                   transfers, exit_code>>

\* receive_result_from_worker(src), second MPI_Recv and NodeResult::deserialize
\* of the first len characters; the result is appended and the loop goes on
receive_result_data ==
    /\ program = "app" /\ pc[0] = "recv_data"
    /\ chan[src] # <<>>
    /\ \E d \in {NodeResult_deserialize(SubSeq(Head(chan[src]).body, 1, len))} :
           IF d.threw
           THEN /\ pc' = [pc EXCEPT ![0] = "crashed"]
                /\ UNCHANGED <<all_results, origin, src>>
           ELSE /\ all_results' = Append(all_results, d.r)
                /\ origin' = Append(origin, HostOf(src))
                /\ src' = src + 1
                /\ pc' = [pc EXCEPT ![0] =
                            IF src + 1 < world_size THEN "recv_len" ELSE "merge"]
    /\ chan' = [chan EXCEPT ![src] = Tail(@)]
    /\ UNCHANGED <<launcher, program, world_size, preflight_only, cfg_file, g_config, bcast,
                   barrier, my_result, did_process, len,
                   node_statuses, probe_log, ready_nodes, merge_calls, merge_ok, reports,
                   job_runs, classify_log, classify_fails, abundance_calls, abundance_fails,
                   transfers, exit_code>>

RECURSIVE AbundanceFiles(_)
\* the abundance files of the successful results that have one
AbundanceFiles(results) ==
    IF results = <<>> THEN <<>>
    ELSE (IF Head(results).success /\ Head(results).abundance_file # <<>>
          THEN <<Head(results).abundance_file>> ELSE <<>>)
         \o AbundanceFiles(Tail(results))

\* merge_abundance_files that runs the merge command as soon as there is one
\* abundance file
merge_single_file ==
    /\ program = "app" /\ pc[0] = "merge"
    /\ IF Len(AbundanceFiles(all_results)) < 1
       THEN UNCHANGED <<merge_calls, merge_ok>>
       ELSE /\ merge_calls' = merge_calls + 1
            /\ \E rc \in ExitCodes : merge_ok' = (rc = 0)
    /\ pc' = [pc EXCEPT ![0] = "report"]
    /\ UNCHANGED <<launcher, program, world_size, preflight_only, cfg_file, g_config, bcast,
                   barrier, chan, my_result, did_process, all_results, origin, src,
                   len, node_statuses, probe_log, ready_nodes, reports,
                   job_runs, classify_log, classify_fails, abundance_calls, abundance_fails,
                   transfers, exit_code>>

\* merge_abundance_files: skipped with fewer than two files, otherwise the
\* merge command runs and its exit status is only logged
merge_abundance_files ==
    /\ program = "app" /\ pc[0] = "merge"
    /\ IF Len(AbundanceFiles(all_results)) < 2
       THEN UNCHANGED <<merge_calls, merge_ok>>
       ELSE /\ merge_calls' = merge_calls + 1
            /\ \E rc \in ExitCodes : merge_ok' = (rc = 0)
    /\ pc' = [pc EXCEPT ![0] = "report"]
    /\ UNCHANGED <<launcher, program, world_size, preflight_only, cfg_file, g_config, bcast,
                   barrier, chan, my_result, did_process, all_results, origin, src,
                   len, node_statuses, probe_log, ready_nodes, reports,
                   job_runs, classify_log, classify_fails, abundance_calls, abundance_fails,
                   transfers, exit_code>>

RECURSIVE SumSuccess(_)
\* total_time: the elapsed seconds of the successful results, added up
SumSuccess(results) ==
    IF results = <<>> THEN 0
    ELSE (IF Head(results).success THEN Head(results).elapsed_seconds ELSE 0)
         + SumSuccess(Tail(results))

RECURSIVE MaxSuccess(_)
\* max_time: the largest elapsed seconds of the successful results, 0 without one
MaxSuccess(results) ==
    IF results = <<>> THEN 0
    ELSE LET m == MaxSuccess(Tail(results))
             e == IF Head(results).success THEN Head(results).elapsed_seconds ELSE 0
         IN  IF e > m THEN e ELSE m

\* the speedup line with a plain division: 0.0 / 0.0 prints as nan (written
\* -1), and a quotient by 0.0 as inf (written -2)
speedup_unguarded(total_time, max_time) ==
    IF max_time = 0 THEN (IF total_time = 0 THEN 0 - 1 ELSE 0 - 2)
    ELSE (200 * total_time + max_time) \div (2 * max_time)

\* the speedup of the summary, in hundredths as fixed << setprecision(2)
\* prints it: max_time > 0 ? total_time / max_time : 0.  The quotient of two
\* whole numbers of seconds goes to the nearest hundredth; one that lies
\* halfway between two is a binary fraction while max_time < 25 and goes to
\* the even one
Speedup(total_time, max_time) ==
    IF max_time > 0
    THEN LET q == (100 * total_time) \div max_time
             twice_rest == 2 * ((100 * total_time) % max_time)
         IN  IF twice_rest > max_time \/ (twice_rest = max_time /\ q % 2 = 1)
             THEN q + 1 ELSE q
    ELSE 0

\* the per-node block of the report of src/app/arda_mpi.cpp
ReportBlock(r) ==
    IF r.success
    THEN [hostname |-> r.hostname, status |-> "SUCCESS",
          elapsed |-> r.elapsed_seconds, result |-> r.result_file,
          abundance |-> r.abundance_file, error |-> <<>>]
    ELSE [hostname |-> r.hostname, status |-> "FAILED",
          elapsed |-> 0, result |-> <<>>, abundance |-> <<>>,
          error |-> r.error_message]

\* generate_aggregate_report of src/app/arda_mpi.cpp: one block per result,
\* the merged-abundance section when the path is not empty, the summary
generate_aggregate_report(results, merged_abundance_path) ==
    [blocks |-> [i \in 1..Len(results) |-> ReportBlock(results[i])],
     merged |-> merged_abundance_path,
     total_success |-> Cardinality({i \in 1..Len(results) : results[i].success}),
     total |-> Len(results),
     total_time |-> SumSuccess(results),
     max_time |-> MaxSuccess(results),
     speedup |-> Speedup(SumSuccess(results), MaxSuccess(results))]

\* the end of run_mpi_mode on rank 0: the report is written with
\* results_dir/cluster_abundance_merged.txt as merged path; return 0
app_report ==
    /\ program = "app" /\ pc[0] = "report"
    /\ LET merged_path == g_config[0].results_dir
                          \o <<"/", "cluster_abundance_merged", ".", "txt">>
       IN  reports' = Append(reports,
                             generate_aggregate_report(all_results, merged_path))
    /\ pc' = [pc EXCEPT ![0] = "done"]
    /\ exit_code' = [exit_code EXCEPT ![0] = 0]
    /\ UNCHANGED <<launcher, program, world_size, preflight_only, cfg_file, g_config, bcast,
                   barrier, chan, my_result, did_process, all_results, origin, src,
                   len, node_statuses, probe_log, ready_nodes, merge_calls, merge_ok,
                   job_runs, classify_log, classify_fails, abundance_calls, abundance_fails,
                   transfers>>

\* the steps of rank r in src/app/arda_mpi.cpp
AppStep(r) ==
    \/ r = 0 /\ (app_load_config \/ app_gather_begin \/ receive_result_len
                 \/ receive_result_data \/ merge_abundance_files \/ app_report)
    \/ broadcast_config(r) \/ barrier_enter(r) \/ barrier_leave(r)
    \/ app_job_begin(r) \/ app_classify_return(r) \/ app_abundance_return(r)
    \/ send_result_len(r) \/ send_result_data(r)

NextApp ==
    \/ app_load_config
    \/ \E r \in AllRanks : broadcast_config(r)
    \/ \E r \in AllRanks : barrier_enter(r)
    \/ \E r \in AllRanks : barrier_leave(r)
    \/ \E r \in AllRanks : app_job_begin(r)
    \/ \E r \in AllRanks : app_classify_return(r)
    \/ \E r \in AllRanks : app_abundance_return(r)
    \/ \E r \in AllRanks : send_result_len(r)
    \/ \E r \in AllRanks : send_result_data(r)
    \/ app_gather_begin
    \/ receive_result_len
    \/ receive_result_data
    \/ merge_abundance_files
    \/ app_report

SpecApp == InitApp /\ [][NextApp]_vars

(***************************************************************************)
(* A cohort whose jobs take long enough for the summary to show quotients. *)
(***************************************************************************)
\* the elapsed times of the jobs, in whole seconds
ElapsedSamples == {10, 15}

\* system(abundance) returns, as app_abundance_return, after one of the
\* elapsed times of ElapsedSamples
timed_abundance_return(r) ==
    /\ program = "app" /\ pc[r] = "abundance"
    /\ LET h == HostOf(r)
           cfg == g_config[r]
           result_path == ResultPath(cfg, h, cfg.reads[h][1])
       IN  \E rc \in ExitCodes, elapsed \in ElapsedSamples :
             /\ my_result' = [my_result EXCEPT ![r] =
                   [@ EXCEPT !.abundance_file =
                                 IF rc = 0 THEN result_path \o <<"_abundance", ".", "txt">>
                                 ELSE <<>>,
                             !.elapsed_seconds = elapsed,
                             !.success = TRUE]]
             /\ abundance_fails' = [abundance_fails EXCEPT ![h] =
                                       IF rc = 0 THEN @ ELSE @ + 1]
    /\ pc' = [pc EXCEPT ![r] = AfterJob(r)]
    /\ did_process' = IF r = 0 THEN TRUE ELSE did_process
    /\ UNCHANGED <<launcher, program, world_size, preflight_only, cfg_file, g_config, bcast,
                   barrier, chan, all_results, origin, src, len,
                   node_statuses, probe_log, ready_nodes, merge_calls, merge_ok, reports,
                   job_runs, classify_log, classify_fails, abundance_calls,
                   transfers, exit_code>>

NextTimed ==
    \/ app_load_config
    \/ \E r \in AllRanks : broadcast_config(r)
    \/ \E r \in AllRanks : barrier_enter(r)
    \/ \E r \in AllRanks : barrier_leave(r)
    \/ \E r \in AllRanks : app_job_begin(r)
    \/ \E r \in AllRanks : app_classify_return(r)
    \/ \E r \in AllRanks : timed_abundance_return(r)
    \/ \E r \in AllRanks : send_result_len(r)
    \/ \E r \in AllRanks : send_result_data(r)
    \/ app_gather_begin
    \/ receive_result_len
    \/ receive_result_data
    \/ merge_abundance_files
    \/ app_report

\* the cohort of src/app/arda_mpi.cpp with the elapsed times of ElapsedSamples
SpecTimed == InitApp /\ [][NextTimed]_vars

(***************************************************************************)
(* The output paths of two nodes, for hostnames and read files of any      *)
(* spelling.                                                               *)
(***************************************************************************)
\* run_classification_local as far as the names go: gethostname, the result
\* path derived from the first read file, result_file once the classify
\* command has succeeded
derive_result_path(r) ==
    /\ program = "app" /\ pc[r] = "path"
    /\ LET cfg == g_config[r]
           h == generate_hostfile(load_config(cfg_file))[r + 1]
           result_path == ResultPath(cfg, h, cfg.reads[h][1])
       IN  my_result' = [my_result EXCEPT ![r] =
               [NewResult EXCEPT !.hostname = h,
                                 !.result_file = result_path \o <<".", "csv">>]]
    /\ pc' = [pc EXCEPT ![r] = "done"]
    /\ UNCHANGED <<launcher, program, world_size, preflight_only, cfg_file, g_config, bcast,
                   barrier, chan, did_process, all_results, origin, src, len,
                   node_statuses, probe_log, ready_nodes, merge_calls, merge_ok, reports,
                   job_runs, classify_log, classify_fails, abundance_calls, abundance_fails,
                   transfers, exit_code>>

\* a master and one worker, their names and their read files drawn from a few
\* spellings; both processes hold the configuration and are about to derive
\* their result path
InitPaths ==
    LET HostSamples == {<<"n">>, <<"n", "0">>, <<"n", "_", "p">>}
        ReadSamples == {<<"/", "1", ".", "fq">>, <<"/", "p", "_", "1", ".", "fq">>,
                        <<"/", "d", "/", "1", ".", "fq">>}
    IN  /\ program = "app"
        /\ \E m \in HostSamples, w \in HostSamples, fm \in ReadSamples,
              fw \in ReadSamples :
               /\ m # w
               /\ cfg_file = [BaseFile EXCEPT !.master = m, !.workers = <<w>>,
                                 !.reads = MapPut(MapPut(EmptyMap, m, <<fm>>), w, <<fw>>)]
        /\ InitCommon
        /\ launcher = [pc |-> "none"]
        /\ world_size = 2
        /\ preflight_only = FALSE
        /\ g_config = [r \in AllRanks |->
                          IF r < 2 THEN load_config(cfg_file) ELSE DefaultConfig]
        /\ pc = [r \in AllRanks |-> IF r < 2 THEN "path" ELSE "absent"]

\* the path derivation of two nodes, for every choice of names
SpecPaths == InitPaths /\ [][\E r \in AllRanks : derive_result_path(r)]_vars

(***************************************************************************)
(* src/arda_mpi.cpp: the health checks.                                    *)
(***************************************************************************)
\* a default-constructed NodeStatus
NewStatus(hostname) ==
    [hostname |-> hostname, reachable |-> FALSE, database_ok |-> FALSE,
     reads_ok |-> FALSE, binary_ok |-> FALSE, disk_ok |-> FALSE,
     error_message |-> <<>>]

\* what the remote probes of one check_node answer: echo, database and binary
\* probe succeed or not; missing is the first read file that is not there
\* (0: all are); disk is the outcome of the df probe
DiskOutcomes == {"enough", "low", "unparsable", "failed"}

Probes(nfiles) ==
    [echo : BOOLEAN, db : BOOLEAN, missing : 0..nfiles, bin : BOOLEAN,
     disk : DiskOutcomes]

\* a check_node that sets every flag from its own probe, without returning
\* at a failure
check_node_every_flag(hostname, cfg, probe) ==
    [NewStatus(hostname) EXCEPT
        !.reachable = probe.echo,
        !.database_ok = probe.db,
        !.reads_ok = HasReads(cfg, hostname) /\ probe.missing = 0,
        !.binary_ok = probe.bin,
        !.disk_ok = TRUE,
        !.error_message =
            IF probe.echo /\ probe.db /\ probe.bin /\ probe.missing = 0
               /\ HasReads(cfg, hostname) /\ probe.disk # "low"
            THEN <<>> ELSE <<"check failed">>]

\* check_node: the probes in order, returning at the first that fails; the
\* disk probe only sets a warning text
check_node(hostname, cfg, probe) ==
    LET s0 == NewStatus(hostname)
        s1 == [s0 EXCEPT !.reachable = TRUE]
        s2 == [s1 EXCEPT !.database_ok = TRUE]
        s3 == [s2 EXCEPT !.reads_ok = TRUE]
        s4 == [s3 EXCEPT !.binary_ok = TRUE]
    IN  IF ~probe.echo
        THEN [s0 EXCEPT !.error_message = <<"Node not reachable", ":", " ">>]
        ELSE IF ~probe.db
        THEN [s1 EXCEPT !.error_message =
                 <<"Database not found or incomplete at ">> \o cfg.database]
        ELSE IF ~HasReads(cfg, hostname)
        THEN [s2 EXCEPT !.error_message = MsgNoReadsLocal]
        ELSE IF probe.missing \in 1..Len(cfg.reads[hostname])
        THEN [s2 EXCEPT !.error_message =
                 MsgReadNotFound(cfg.reads[hostname][probe.missing])]
        ELSE IF ~probe.bin
        THEN [s3 EXCEPT !.error_message =
                 <<"cuCLARK-l binary not found or not executable at ">>
                 \o cfg.cuclark_dir \o <<"/", "bin", "/", "cuCLARK-l">>]
        ELSE [s4 EXCEPT !.disk_ok = TRUE,
                        !.error_message =
                            IF probe.disk = "low"
                            THEN <<"Insufficient disk space (< 1GB free)">>
                            ELSE <<>>]

\* a check_node that goes on to the next probe when one has failed
check_node_commands_all(hostname, cfg, probe) ==
    LET Answer(ok) == IF ok THEN "ok" ELSE "failed"
        n == IF HasReads(cfg, hostname) THEN Len(cfg.reads[hostname]) ELSE 0
    IN  <<[cmd |-> "echo", answer |-> Answer(probe.echo)],
          [cmd |-> "test -d", answer |-> Answer(probe.db)]>>
        \o [i \in 1..n |-> [cmd |-> "test -f", answer |-> Answer(i # probe.missing)]]
        \o <<[cmd |-> "test -x", answer |-> Answer(probe.bin)],
              [cmd |-> "df", answer |-> probe.disk]>>

\* the run_ssh_command calls of one check_node, in the order they are made,
\* each with the answer it got: the echo, the database test, one test per
\* read file up to the first that is missing, the binary test, df
check_node_commands(hostname, cfg, probe) ==
    LET Answer(ok) == IF ok THEN "ok" ELSE "failed"
        echo == <<[cmd |-> "echo", answer |-> Answer(probe.echo)]>>
        db == <<[cmd |-> "test -d", answer |-> Answer(probe.db)]>>
        n == IF HasReads(cfg, hostname) THEN Len(cfg.reads[hostname]) ELSE 0
        tested == IF probe.missing \in 1..n THEN probe.missing ELSE n
        reads == [i \in 1..tested |->
                     [cmd |-> "test -f", answer |-> Answer(i # probe.missing)]]
        bin == <<[cmd |-> "test -x", answer |-> Answer(probe.bin)]>>
        disk == <<[cmd |-> "df", answer |-> probe.disk]>>
    IN  IF ~probe.echo THEN echo
        ELSE IF ~probe.db \/ n = 0 THEN echo \o db
        ELSE IF probe.missing \in 1..n THEN echo \o db \o reads
        ELSE IF ~probe.bin THEN echo \o db \o reads \o bin
        ELSE echo \o db \o reads \o bin \o disk

\* a readiness test that also wants the status free of any warning
IsReadyNoWarning(ns) ==
    /\ ns.reachable /\ ns.database_ok /\ ns.reads_ok /\ ns.binary_ok
    /\ ns.error_message = <<>>

\* reachable && database_ok && reads_ok && binary_ok
IsReady(ns) == ns.reachable /\ ns.database_ok /\ ns.reads_ok /\ ns.binary_ok

\* all_nodes of run_preflight_checks: the workers, the master put in front
\* when it processes reads
Candidates(cfg) ==
    IF cfg.master_processes_reads THEN <<cfg.master>> \o cfg.workers
    ELSE cfg.workers

RECURSIVE ReadyOf(_)
\* the statuses of the ready nodes, in their order
ReadyOf(statuses) ==
    IF statuses = <<>> THEN <<>>
    ELSE (IF IsReady(Head(statuses)) THEN <<Head(statuses)>> ELSE <<>>)
         \o ReadyOf(Tail(statuses))

\* the probe answers the runs draw from: a node that passes every probe, one
\* without the database, one that passes with little disk space left
RunProbes ==
    {[echo |-> TRUE, db |-> TRUE, missing |-> 0, bin |-> TRUE, disk |-> "enough"],
     [echo |-> TRUE, db |-> FALSE, missing |-> 0, bin |-> TRUE, disk |-> "enough"],
     [echo |-> TRUE, db |-> TRUE, missing |-> 0, bin |-> TRUE, disk |-> "low"]}

(***************************************************************************)
(* src/arda_mpi.cpp: main, run_master, run_worker.                         *)
(***************************************************************************)
\* the program is started by the user, as one process or under mpirun with
\* one process per configured node; every rank loads the file itself
WorldSizes == {1, 1 + MaxWorkers}

InitLegacy ==
    /\ program = "legacy"
    /\ cfg_file \in ConfigFiles
    /\ InitCommon
    /\ launcher = [pc |-> "none"]
    /\ world_size \in WorldSizes
    /\ preflight_only \in BOOLEAN
    /\ g_config = [r \in AllRanks |-> LegacyDefaultConfig]
    /\ pc = [r \in AllRanks |-> IF r >= world_size THEN "absent" ELSE "load"]

\* main up to the branch on the rank: load_config; rank 0 asks for the SSH
\* password and starts the health checks, the others call run_worker
legacy_main(r) ==
    /\ program = "legacy" /\ pc[r] = "load"
    /\ g_config' = [g_config EXCEPT ![r] = legacy_load_config(cfg_file)]
    /\ pc' = [pc EXCEPT ![r] = IF r = 0 THEN "check" ELSE "job"]
    /\ src' = IF r = 0 THEN 1 ELSE src
    /\ UNCHANGED <<launcher, program, world_size, preflight_only, cfg_file, bcast, barrier,
                   chan, my_result, did_process, all_results, origin, len,
                   node_statuses, probe_log, ready_nodes, merge_calls, merge_ok, reports,
                   job_runs, classify_log, classify_fails, abundance_calls, abundance_fails,
                   transfers, exit_code>>

\* one turn of the loop of run_preflight_checks: check_node of candidate src
run_preflight_checks ==
    /\ program = "legacy" /\ pc[0] = "check"
    /\ LET cfg == g_config[0]
           node == Candidates(cfg)[src]
       IN  \E probe \in RunProbes :
              /\ node_statuses' = Append(node_statuses, check_node(node, cfg, probe))
              /\ probe_log' = Append(probe_log, check_node_commands(node, cfg, probe))
    /\ src' = src + 1
    /\ pc' = [pc EXCEPT ![0] =
                IF src = Len(Candidates(g_config[0])) THEN "dispatch" ELSE "check"]
    /\ UNCHANGED <<launcher, program, world_size, preflight_only, cfg_file, g_config, bcast,
                   barrier, chan, my_result, did_process, all_results, origin, len,
                   ready_nodes, merge_calls, merge_ok, reports,
                   job_runs, classify_log, classify_fails, abundance_calls, abundance_fails,
                   transfers, exit_code>>

\* after the health checks: with -p main is done; run_master returns 1 when
\* no node is ready, otherwise it picks the sequential SSH mode
\* (world_size = 1) or the parallel mode
run_master_dispatch ==
    /\ program = "legacy" /\ pc[0] = "dispatch"
    /\ IF preflight_only
       THEN /\ pc' = [pc EXCEPT ![0] = "done"]
            /\ exit_code' = [exit_code EXCEPT ![0] = 0]
            /\ UNCHANGED <<ready_nodes, src>>
       ELSE IF ReadyOf(node_statuses) = <<>>
       THEN /\ pc' = [pc EXCEPT ![0] = "done"]
            /\ exit_code' = [exit_code EXCEPT ![0] = 1]
            /\ UNCHANGED <<ready_nodes, src>>
       ELSE /\ ready_nodes' = ReadyOf(node_statuses)
            /\ src' = 1
            /\ pc' = [pc EXCEPT ![0] = IF world_size = 1 THEN "seq" ELSE "job"]
            /\ UNCHANGED exit_code
    /\ UNCHANGED <<launcher, program, world_size, preflight_only, cfg_file, g_config, bcast,
                   barrier, chan, my_result, did_process, all_results, origin, len,
                   node_statuses, probe_log, merge_calls, merge_ok, reports,
                   job_runs, classify_log, classify_fails, abundance_calls, abundance_fails,
                   transfers>>

RECURSIVE SeqFiles(_, _, _, _, _)
\* the loop over the read files of one node in the sequential mode: file i is
\* classified over SSH (rcs[i]); a failure sets the error text and the loop
\* goes on; a success sets result_file, success and, whatever the abundance
\* command returns, abundance_file
SeqFiles(cfg, hostname, rcs, i, result) ==
    IF i > Len(cfg.reads[hostname]) THEN result
    ELSE LET result_path == ResultPath(cfg, hostname, cfg.reads[hostname][i])
         IN  SeqFiles(cfg, hostname, rcs, i + 1,
                IF rcs[i] # 0
                THEN [result EXCEPT !.error_message =
                         <<"Classification failed", ":", " ">>]
                ELSE [result EXCEPT
                         !.result_file = result_path \o <<".", "csv">>,
                         !.success = TRUE,
                         !.abundance_file =
                             result_path \o <<"_abundance", ".", "txt">>])

\* the classify commands of the legacy program: one -O command per read file
SingleCommands(files) ==
    [i \in 1..Len(files) |-> [mode |-> "single", files |-> <<files[i]>>]]

\* one turn of the node loop of the sequential mode: ready node src is
\* processed over SSH and its result appended
run_master_sequential ==
    /\ program = "legacy" /\ pc[0] = "seq"
    /\ LET cfg == g_config[0]
           h == ready_nodes[src].hostname
           res == [NewResult EXCEPT !.hostname = h]
       IN  /\ job_runs' = [job_runs EXCEPT ![h] = @ + 1]
           /\ IF ~HasReads(cfg, h)
              THEN /\ all_results' = Append(all_results,
                          [res EXCEPT !.error_message = <<"No reads configured">>])
                   /\ UNCHANGED <<classify_log, classify_fails, abundance_calls, abundance_fails>>
              ELSE \E rcs \in [1..Len(cfg.reads[h]) -> ExitCodes],
                      arc \in ExitCodes, elapsed \in 0..MaxElapsed :
                     /\ all_results' = Append(all_results,
                           [SeqFiles(cfg, h, rcs, 1, res)
                               EXCEPT !.elapsed_seconds = elapsed])
                     /\ classify_log' = [classify_log EXCEPT ![h] =
                                            @ \o SingleCommands(cfg.reads[h])]
                     /\ classify_fails' = [classify_fails EXCEPT ![h] =
                           @ + Cardinality({i \in DOMAIN rcs : rcs[i] # 0})]
                     /\ abundance_calls' = [abundance_calls EXCEPT ![h] =
                           @ + Cardinality({i \in DOMAIN rcs : rcs[i] = 0})]
                     /\ (arc # 0 => \E i \in DOMAIN rcs : rcs[i] = 0)
                     /\ abundance_fails' = [abundance_fails EXCEPT ![h] =
                           IF arc = 0 THEN @
                           ELSE @ + Cardinality({i \in DOMAIN rcs : rcs[i] = 0})]
           /\ origin' = Append(origin, h)
    /\ src' = src + 1
    /\ pc' = [pc EXCEPT ![0] = IF src = Len(ready_nodes) THEN "collect" ELSE "seq"]
    /\ UNCHANGED <<launcher, program, world_size, preflight_only, cfg_file, g_config, bcast,
                   barrier, chan, my_result, did_process, len,
                   node_statuses, probe_log, ready_nodes, merge_calls, merge_ok, reports,
                   transfers, exit_code>>

\* where a rank of the legacy program goes when run_classification_local
\* has returned
LegacyAfterJob(r) == IF r = 0 THEN "gather" ELSE "send"

\* run_classification_local of src/arda_mpi.cpp up to the first classify
\* command
legacy_job_begin(r) ==
    /\ program = "legacy" /\ pc[r] = "job"
    /\ LET h == HostOf(r)
           cfg == g_config[r]
           res == [NewResult EXCEPT !.hostname = h]
       IN  /\ job_runs' = [job_runs EXCEPT ![h] = @ + 1]
           /\ IF ~HasReads(cfg, h)
              THEN /\ my_result' = [my_result EXCEPT ![r] =
                                      [res EXCEPT !.error_message = MsgNoReadsLocal]]
                   /\ pc' = [pc EXCEPT ![r] = LegacyAfterJob(r)]
                   /\ UNCHANGED classify_log
              ELSE /\ my_result' = [my_result EXCEPT ![r] = res]
                   /\ pc' = [pc EXCEPT ![r] = "classify"]
                   /\ classify_log' = [classify_log EXCEPT ![h] =
                         Append(@, [mode |-> "single", files |-> <<cfg.reads[h][1]>>])]
    /\ UNCHANGED <<launcher, program, world_size, preflight_only, cfg_file, g_config, bcast,
                   barrier, chan, did_process, all_results, origin, src, len,
                   node_statuses, probe_log, ready_nodes, merge_calls, merge_ok, reports,
                   classify_fails, abundance_calls, abundance_fails, transfers, exit_code>>

RECURSIVE LocalFiles(_, _, _, _, _, _)
\* the loop over the read files in run_classification_local of src/arda_mpi.cpp
\* from file i on: files before failed succeed (their abundance command
\* returning arcs[i]), file failed fails and ends the job (0: none fails)
LocalFiles(cfg, hostname, failed, arcs, i, result) ==
    IF i > Len(cfg.reads[hostname]) THEN [result EXCEPT !.success = TRUE]
    ELSE IF i = failed
    THEN [result EXCEPT !.error_message = MsgClassifyFailed(1)]
    ELSE LET result_path == ResultPath(cfg, hostname, cfg.reads[hostname][i])
         IN  LocalFiles(cfg, hostname, failed, arcs, i + 1,
                [result EXCEPT
                    !.result_file = result_path \o <<".", "csv">>,
                    !.abundance_file =
                        IF arcs[i] = 0
                        THEN result_path \o <<"_abundance", ".", "txt">>
                        ELSE @])

\* the rest of run_classification_local of src/arda_mpi.cpp: the commands return
legacy_job_return(r) ==
    /\ program = "legacy" /\ pc[r] = "classify"
    /\ LET h == HostOf(r)
           cfg == g_config[r]
           n == Len(cfg.reads[h])
       IN  \E failed \in 0..n, arc \in ExitCodes, elapsed \in 0..MaxElapsed :
             LET arcs == [i \in 1..n |-> arc]
                 res == LocalFiles(cfg, h, failed, arcs, 1, my_result[r])
                 ran == IF failed = 0 THEN n ELSE failed
             IN  /\ (failed # 0 => elapsed = 0)
                 /\ (failed = 1 => arc = 0)
                 /\ my_result' = [my_result EXCEPT ![r] =
                       IF res.success THEN [res EXCEPT !.elapsed_seconds = elapsed]
                       ELSE res]
                 /\ classify_log' = [classify_log EXCEPT ![h] =
                       @ \o [i \in 1..(ran - 1) |->
                               [mode |-> "single", files |-> <<cfg.reads[h][i + 1]>>]]]
                 /\ classify_fails' = [classify_fails EXCEPT ![h] =
                       IF failed = 0 THEN @ ELSE @ + 1]
                 /\ abundance_calls' = [abundance_calls EXCEPT ![h] =
                       @ + (IF failed = 0 THEN n ELSE failed - 1)]
                 /\ abundance_fails' = [abundance_fails EXCEPT ![h] =
                       IF arc = 0 THEN @
                       ELSE @ + (IF failed = 0 THEN n ELSE failed - 1)]
    /\ pc' = [pc EXCEPT ![r] = LegacyAfterJob(r)]
    /\ UNCHANGED <<launcher, program, world_size, preflight_only, cfg_file, g_config, bcast,
                   barrier, chan, did_process, all_results, origin, src, len,
                   node_statuses, probe_log, ready_nodes, merge_calls, merge_ok, reports,
                   job_runs, transfers, exit_code>>

\* std::to_string(double) of a whole number of seconds: "%f"
to_string_double(x) == IntToStr(x) \o <<".", "0", "0", "0", "0", "0", "0">>

\* the text run_worker sends: hostname|success|result_file|elapsed
WorkerResultStr(result) ==
    result.hostname \o <<"|">> \o (IF result.success THEN <<"1">> ELSE <<"0">>)
    \o <<"|">> \o result.result_file \o <<"|">>
    \o to_string_double(result.elapsed_seconds)

\* the end of run_worker: one MPI_Send to rank 0, then main returns
run_worker_send(r) ==
    /\ program = "legacy" /\ pc[r] = "send" /\ r # 0
    /\ chan' = [chan EXCEPT ![r] =
                  Append(@, [tag |-> "TAG_RESULT_DATA",
                             body |-> WorkerResultStr(my_result[r])])]
    /\ pc' = [pc EXCEPT ![r] = "done"]
    /\ exit_code' = [exit_code EXCEPT ![r] = IF my_result[r].success THEN 0 ELSE 1]
    /\ UNCHANGED <<launcher, program, world_size, preflight_only, cfg_file, g_config, bcast,
                   barrier, my_result, did_process, all_results, origin, src, len,
                   node_statuses, probe_log, ready_nodes, merge_calls, merge_ok, reports,
                   job_runs, classify_log, classify_fails, abundance_calls, abundance_fails,
                   transfers>>

\* parallel mode of run_master: the result of rank 0 opens the collection
run_master_push_local ==
    /\ program = "legacy" /\ pc[0] = "gather"
    /\ all_results' = Append(all_results, my_result[0])
    /\ origin' = Append(origin, HostOf(0))
    /\ src' = 1
    /\ pc' = [pc EXCEPT ![0] = IF 1 < world_size THEN "recv" ELSE "collect"]
    /\ UNCHANGED <<launcher, program, world_size, preflight_only, cfg_file, g_config, bcast,
                   barrier, chan, my_result, did_process, len,
                   node_statuses, probe_log, ready_nodes, merge_calls, merge_ok, reports,
                   job_runs, classify_log, classify_fails, abundance_calls, abundance_fails,
                   transfers, exit_code>>

\* one turn of the receive loop of run_master: MPI_Recv from rank src blocks
\* until its message is there; the whole text becomes the hostname of a
\* result that counts as a success
run_master_recv ==
    /\ program = "legacy" /\ pc[0] = "recv"
    /\ chan[src] # <<>>
    /\ LET buffer == Head(chan[src]).body
           worker_result == [NewResult EXCEPT !.hostname = buffer,
                                              !.success = TRUE]
       IN  all_results' = Append(all_results, worker_result)
    /\ origin' = Append(origin, HostOf(src))
    /\ chan' = [chan EXCEPT ![src] = Tail(@)]
    /\ src' = src + 1
    /\ pc' = [pc EXCEPT ![0] = IF src + 1 < world_size THEN "recv" ELSE "collect"]
    /\ UNCHANGED <<launcher, program, world_size, preflight_only, cfg_file, g_config, bcast,
                   barrier, my_result, did_process, len,
                   node_statuses, probe_log, ready_nodes, merge_calls, merge_ok, reports,
                   job_runs, classify_log, classify_fails, abundance_calls, abundance_fails,
                   transfers, exit_code>>

\* collect_results: for every successful result of a node other than the
\* master, the result file and the abundance file are copied when named
collect_results(cfg, results) ==
    UNION {
        IF ~results[i].success \/ results[i].hostname = cfg.master THEN {}
        ELSE (IF results[i].result_file # <<>>
              THEN {[host |-> results[i].hostname, file |-> results[i].result_file]}
              ELSE {})
             \cup
             (IF results[i].abundance_file # <<>>
              THEN {[host |-> results[i].hostname, file |-> results[i].abundance_file]}
              ELSE {})
        : i \in 1..Len(results)}

\* the report of src/arda_mpi.cpp: one block per result and the summary
legacy_generate_aggregate_report(results) ==
    [blocks |-> [i \in 1..Len(results) |-> ReportBlock(results[i])],
     merged |-> <<>>,
     total_success |-> Cardinality({i \in 1..Len(results) : results[i].success}),
     total |-> Len(results),
     total_time |-> SumSuccess(results),
     max_time |-> 0]

\* run_master_finish that calls collect_results whatever the configuration says
run_master_finish_ungated ==
    /\ program = "legacy" /\ pc[0] = "collect"
    /\ \E rc \in ExitCodes :
          transfers' = transfers \cup
                       {[host |-> t.host, file |-> t.file, rc |-> rc] :
                           t \in collect_results(g_config[0], all_results)}
    /\ reports' = Append(reports, legacy_generate_aggregate_report(all_results))
    /\ pc' = [pc EXCEPT ![0] = "done"]
    /\ exit_code' = [exit_code EXCEPT ![0] = 0]
    /\ UNCHANGED <<launcher, program, world_size, preflight_only, cfg_file, g_config, bcast,
                   barrier, chan, my_result, did_process, all_results, origin, src,
                   len, node_statuses, probe_log, ready_nodes, merge_calls, merge_ok,
                   job_runs, classify_log, classify_fails, abundance_calls, abundance_fails>>

\* the end of run_master: collect_results when configured (its scp commands
\* exit with rc, which is only logged), the report, return 0
run_master_finish ==
    /\ program = "legacy" /\ pc[0] = "collect"
    /\ \E rc \in ExitCodes :
          transfers' = IF g_config[0].collect_results_to_master
                       THEN transfers \cup
                            {[host |-> t.host, file |-> t.file, rc |-> rc] :
                                t \in collect_results(g_config[0], all_results)}
                       ELSE transfers
    /\ reports' = Append(reports, legacy_generate_aggregate_report(all_results))
    /\ pc' = [pc EXCEPT ![0] = "done"]
    /\ exit_code' = [exit_code EXCEPT ![0] = 0]
    /\ UNCHANGED <<launcher, program, world_size, preflight_only, cfg_file, g_config, bcast,
                   barrier, chan, my_result, did_process, all_results, origin, src,
                   len, node_statuses, probe_log, ready_nodes, merge_calls, merge_ok,
                   job_runs, classify_log, classify_fails, abundance_calls, abundance_fails>>

\* the steps of rank r in src/arda_mpi.cpp
LegacyStep(r) ==
    \/ legacy_main(r) \/ legacy_job_begin(r) \/ legacy_job_return(r)
    \/ run_worker_send(r)
    \/ r = 0 /\ (run_preflight_checks \/ run_master_dispatch
                 \/ run_master_sequential \/ run_master_push_local
                 \/ run_master_recv \/ run_master_finish)

NextLegacy ==
    \/ \E r \in AllRanks : legacy_main(r)
    \/ run_preflight_checks
    \/ run_master_dispatch
    \/ run_master_sequential
    \/ \E r \in AllRanks : legacy_job_begin(r)
    \/ \E r \in AllRanks : legacy_job_return(r)
    \/ \E r \in AllRanks : run_worker_send(r)
    \/ run_master_push_local
    \/ run_master_recv
    \/ run_master_finish

SpecLegacy == InitLegacy /\ [][NextLegacy]_vars

(***************************************************************************)
(* A run of either program.                                                *)
(***************************************************************************)
Init == InitApp \/ InitLegacy

Next == NextApp \/ NextLegacy

Spec == Init /\ [][Next]_vars

\* the steps of the process of rank r
Step(r) == AppStep(r) \/ LegacyStep(r)

\* every process that can take a step eventually takes one: the processes run
\* on machines of their own, and every external command returns
FairSpec == Spec /\ \A r \in AllRanks : WF_vars(Step(r))

(***************************************************************************)
(* Ordering of configuration, health checks, jobs and collection.          *)
(***************************************************************************)
\* run_classification_local has been entered by the process of rank r
JobStarted(r) == pc[r] \in {"classify", "abundance", "send", "send_len",
                            "send_data"}
                 \/ (pc[r] \in {"gather", "recv", "recv_len", "recv_data",
                                "merge", "report", "collect", "done"}
                     /\ job_runs[HostOf(r)] > 0 /\ world_size > 1)

\* rank q holds the configuration of the run and is through the distribution:
\* in src/app/arda_mpi.cpp it has entered the barrier after broadcast_config,
\* in src/arda_mpi.cpp (no distribution) it has loaded the file
DistributionComplete(q) ==
    IF program = "app" THEN q \in barrier ELSE pc[q] # "load"

\* C1: in the parallel mode, whenever some rank has begun
\* run_classification_local, every rank of the cohort holds the configuration
\* and is through the configuration distribution.
C1_ConfigBeforeJob ==
    world_size > 1 =>
        \A r \in Ranks : JobStarted(r) => \A q \in Ranks : DistributionComplete(q)

\* the hosts whose results the coordinator has to collect, in collection
\* order: in the parallel mode rank 0 if it ran the job, then ranks
\* 1..world_size-1; in the sequential mode the ready nodes
ExpectedOrigin ==
    IF program = "legacy" /\ world_size = 1
    THEN [i \in 1..Len(ready_nodes) |-> ready_nodes[i].hostname]
    ELSE (IF job_runs[HostOf(0)] > 0 THEN <<HostOf(0)>> ELSE <<>>)
         \o [i \in 1..(world_size - 1) |-> HostOf(i)]

\* the nodes JobRunner was started for
Dispatched == {h \in AllHosts : job_runs[h] > 0}

\* the coordinator has left the collection: merge, collect_results or the
\* report is next or done
CollectionClosed == pc[0] \in {"merge", "report", "collect"} \/ reports # <<>>

\* C2: when the coordinator starts merging or reporting, the collection holds
\* exactly one NodeResult per dispatched node: rank 0's own if it processed,
\* then one from each rank 1..world_size-1; none twice, none missing.
C2_OneResultPerDispatched ==
    CollectionClosed =>
        /\ origin = ExpectedOrigin
        /\ Len(all_results) = Len(origin)
        /\ {origin[i] : i \in 1..Len(origin)} = Dispatched
        /\ \A i, j \in 1..Len(origin) : origin[i] = origin[j] => i = j
        /\ \A h \in AllHosts : job_runs[h] <= 1

\* the coordinator of a three-rank cohort is about to merge with its own
\* result and the two received ones
C2_Witness ==
    /\ program = "app" /\ pc[0] = "merge" /\ world_size = 3
    /\ did_process /\ Len(all_results) = 3

(***************************************************************************)
(* Termination.                                                            *)
(***************************************************************************)
\* every process of the run has returned from main
AllDone == \A r \in Ranks : pc[r] = "done"

\* a run that dispatches: not a -p run, and at least one candidate is ready
\* (launch_mpi of src/app/arda_mpi.cpp starts the cohort only after its own
\* checks passed)
NormalRun ==
    program = "app" \/ (~preflight_only /\ ReadyOf(node_statuses) # <<>>)

classify_hangs(r) ==
    /\ program = "app" /\ pc[r] = "classify" /\ r # 0
    /\ pc' = [pc EXCEPT ![r] = "hung"]
    /\ UNCHANGED <<launcher, program, world_size, preflight_only, cfg_file, g_config, bcast,
                   barrier, chan, my_result, did_process, all_results, origin, src,
                   len, node_statuses, probe_log, ready_nodes, merge_calls, merge_ok, reports,
                   job_runs, classify_log, classify_fails, abundance_calls, abundance_fails,
                   transfers, exit_code>>

NextAppHang ==
    \/ NextApp
    \/ \E r \in AllRanks : classify_hangs(r)

\* the cohort of src/app/arda_mpi.cpp where a classify command may hang; every
\* process that can take a step of the program eventually takes one
SpecAppHang ==
    InitApp /\ [][NextAppHang]_vars /\ \A r \in AllRanks : WF_vars(AppStep(r))

\* the collection holds a failed result with the error text "no response"
\* for host h
NoResponseRecorded(h) ==
    \E i \in 1..Len(all_results) :
        /\ all_results[i].hostname = h
        /\ ~all_results[i].success
        /\ all_results[i].error_message = <<"no response">>

\* C4: when a dispatched node never sends its result, the coordinator's wait
\* for it is bounded: it records a failed NodeResult "no response" for that
\* node, collects the others and writes the report.
C4_BoundedWait ==
    \A r \in AllRanks :
        (pc[r] = "hung")
            ~> (reports # <<>> /\ r \in Ranks /\ NoResponseRecorded(HostOf(r)))

(***************************************************************************)
(* The report.                                                             *)
(***************************************************************************)
\* the hostnames heading the per-node blocks of a report, in their order
BlockHosts(rep) == [k \in 1..Len(rep.blocks) |-> rep.blocks[k].hostname]

\* C5: the report has exactly one per-node block for each dispatched node and
\* none for any other node; the number of blocks and the denominator of the
\* success ratio equal the number of dispatched nodes.
C5_OneBlockPerDispatched ==
    \A i \in 1..Len(reports) :
        /\ Len(reports[i].blocks) = Cardinality(Dispatched)
        /\ reports[i].total = Cardinality(Dispatched)
        /\ {reports[i].blocks[k].hostname : k \in 1..Len(reports[i].blocks)}
               = Dispatched
        /\ BlockHosts(reports[i]) = origin

(***************************************************************************)
(* Retries.                                                                *)
(***************************************************************************)
\* every classify command invoked for host h exited non-zero
AlwaysFails(h) ==
    classify_log[h] # <<>> /\ classify_fails[h] = Len(classify_log[h])

\* C6: with retry_failed_nodes enabled and max_retries = N, a node whose
\* classify command always fails has had JobRunner invoked exactly N + 1
\* times when the run is over, and its final result is a failed one.
C6_RetryBound ==
    (reports # <<>> /\ cfg_file.retry_failed_nodes) =>
        \A h \in AllHosts :
            AlwaysFails(h) =>
                /\ job_runs[h] = cfg_file.max_retries + 1
                /\ \E i \in 1..Len(all_results) :
                       origin[i] = h /\ ~all_results[i].success

(***************************************************************************)
(* Configuration distribution.                                             *)
(***************************************************************************)
\* C7: once the distribution is complete, the ClusterConfig of every
\* non-coordinator process equals the coordinator's in every field: master,
\* workers, directories, reads, classification parameters, options, logging.
C7_ConfigIdentical ==
    \A r \in Ranks \ {0} :
        (program = "app" /\ r \in barrier) =>
            \A f \in ConfigFields : g_config[r][f] = g_config[0][f]

(***************************************************************************)
(* A configuration payload that arrives damaged.                           *)
(***************************************************************************)
\* the position of the n-th "\n" of data
RECURSIVE NthNL(_, _, _)
NthNL(data, n, from) ==
    IF n = 1 THEN IndexOf(data, NL, from)
    ELSE NthNL(data, n - 1, IndexOf(data, NL, from) + 1)

\* the payload cut in the middle of the scalar fields: the kmer_size line is
\* the last one and its "\n" is gone (fields missing)
CutAfterKmer(data) == SubSeq(data, 1, NthNL(data, 4, 1) - 1)

\* the payload with "x" in place of the first digit of kmer_size
NonNumericKmer(data) ==
    [i \in 1..Len(data) |-> IF i = NthNL(data, 3, 1) + 1 THEN "x" ELSE data[i]]

\* the payload without its last reads entry: fewer entries than announced
DropLastEntry(data) ==
    SubSeq(data, 1, LastIndexOf(data, NL, Len(data) - 1))

\* the payload with the ':' of its first reads entry removed
DropFirstColon(data) ==
    SubSeq(data, 1, IndexOf(data, ":", 1) - 1)
    \o SubSeq(data, IndexOf(data, ":", 1) + 1, Len(data))

\* the malformed payloads a participant may find in its buffer instead of data
Damaged(data) ==
    {CutAfterKmer(data), NonNumericKmer(data), DropLastEntry(data),
     DropFirstColon(data)}

\* broadcast_config on a non-root rank whose buffer holds a damaged payload
broadcast_config_damaged(r) ==
    /\ program = "app" /\ pc[r] = "bcast" /\ r # 0
    /\ bcast.sent
    /\ \E data \in Damaged(bcast.data) : ReceiveConfig(r, data)
    /\ UNCHANGED <<launcher, program, world_size, preflight_only, cfg_file, barrier,
                   chan, my_result, did_process, all_results, origin, src, len,
                   node_statuses, probe_log, ready_nodes, merge_calls, merge_ok, reports, job_runs,
                   classify_log, abundance_calls, abundance_fails, transfers, classify_fails, exit_code>>

NextAppDamaged ==
    \/ NextApp
    \/ \E r \in AllRanks : broadcast_config_damaged(r)

\* the cohort of src/app/arda_mpi.cpp where the payload may arrive damaged
SpecAppDamaged == InitApp /\ [][NextAppDamaged]_vars

\* rank r has received a payload that is not the one rank 0 serialized
GotDamaged(r) == bcast.got[r] # <<>> /\ bcast.got[r] # bcast.data

\* C8: when the payload a participant receives is malformed or truncated, the
\* whole run aborts: no participant executes a job.
C8_DamagedPayloadAborts ==
    (\E r \in Ranks : GotDamaged(r)) => \A h \in AllHosts : job_runs[h] = 0

(***************************************************************************)
(* Health checks before dispatch.                                          *)
(***************************************************************************)
\* check_node has returned for every candidate node of the run
ChecksComplete ==
    Len(node_statuses) = Len(Candidates(legacy_load_config(cfg_file)))

\* C9: no classify command is started on any node before the health check of
\* every candidate node has completed, in the sequential and in the parallel
\* mode, for the coordinator and for every worker process.
C9_ChecksBeforeClassify ==
    program = "legacy" =>
        ((\E h \in AllHosts : classify_log[h] # <<>>) => ChecksComplete)

\* C10: a node whose health check failed never has JobRunner or the classify
\* command executed on it, in either execution mode.
C10_FailedNodeNeverRuns ==
    \A i \in 1..Len(node_statuses) :
        ~IsReady(node_statuses[i]) =>
            /\ job_runs[node_statuses[i].hostname] = 0
            /\ classify_log[node_statuses[i].hostname] = <<>>

(***************************************************************************)
(* src/app/arda_mpi.cpp: launch_mpi, the process the user starts, and the   *)
(* cohort it starts with mpirun.                                           *)
(***************************************************************************)
InitLaunch ==
    /\ program = "app"
    /\ cfg_file \in StartFiles
    /\ InitCommon
    /\ launcher = NewLauncher(cfg_file)
    /\ world_size = 0
    /\ preflight_only = FALSE
    /\ g_config = [r \in AllRanks |-> DefaultConfig]
    /\ pc = [r \in AllRanks |-> "absent"]

\* launch_mpi_begin that writes the hostfile before it looks at what
\* load_config returned
launch_begin_hostfile_first ==
    /\ program = "app" /\ launcher.pc = "load"
    /\ LET cfg == load_config(cfg_file)
           active_workers == SelectSeq2(cfg.workers, cfg.reads)
       IN  launcher' =
             IF ~load_config_ok(cfg_file) \/ ~HasWork(cfg)
             THEN [launcher EXCEPT !.cfg = cfg, !.hostfile = generate_hostfile(cfg),
                                   !.pc = "done", !.exit = 1]
             ELSE [launcher EXCEPT !.cfg = cfg, !.hostfile = generate_hostfile(cfg),
                                   !.pc = IF active_workers = <<>> THEN "mpirun"
                                          ELSE "ssh"]
    /\ UNCHANGED <<program, world_size, preflight_only, cfg_file, g_config, pc,
                   bcast, barrier, chan, my_result, did_process, all_results,
                   origin, src, len, node_statuses, probe_log, ready_nodes, merge_calls,
                   merge_ok, reports, job_runs, classify_log, abundance_calls, abundance_fails,
                   transfers, classify_fails, exit_code>>

\* launch_mpi up to its first probe: load_config (a failure returns 1), the
\* hostfile is written, no work to do returns 1
launch_mpi_begin ==
    /\ program = "app" /\ launcher.pc = "load"
    /\ LET cfg == load_config(cfg_file)
           active_workers == SelectSeq2(cfg.workers, cfg.reads)
       IN  launcher' =
             IF ~load_config_ok(cfg_file)
             THEN [launcher EXCEPT !.cfg = cfg, !.pc = "done", !.exit = 1]
             ELSE IF ~HasWork(cfg)
             THEN [launcher EXCEPT !.cfg = cfg, !.hostfile = generate_hostfile(cfg),
                                   !.pc = "done", !.exit = 1]
             ELSE [launcher EXCEPT !.cfg = cfg, !.hostfile = generate_hostfile(cfg),
                                   !.pc = IF active_workers = <<>> THEN "mpirun"
                                          ELSE "ssh"]
    /\ UNCHANGED <<program, world_size, preflight_only, cfg_file, g_config, pc,
                   bcast, barrier, chan, my_result, did_process, all_results,
                   origin, src, len, node_statuses, probe_log, ready_nodes, merge_calls,
                   merge_ok, reports, job_runs, classify_log, abundance_calls, abundance_fails,
                   transfers, classify_fails, exit_code>>

\* one turn of a probe loop of launch_mpi over the active workers: the SSH
\* command is issued; a failure returns 1, the last success goes on to next.
\* The loops: "ssh worker hostname" for every worker, then
\* "ssh worker test -x cuclark_dir/bin/arda-mpi" for every worker
launch_probe(stage, probe, next) ==
    /\ program = "app" /\ launcher.pc = stage
    /\ LET active_workers == Tail(launcher.hostfile)
           worker == active_workers[launcher.i]
           last == launcher.i = Len(active_workers)
       IN  \E ok \in BOOLEAN :
             launcher' = [launcher EXCEPT
                 !.ssh = Append(@, [host |-> worker, probe |-> probe, ok |-> ok]),
                 !.i = IF ok /\ ~last THEN @ + 1 ELSE 1,
                 !.pc = IF ~ok THEN "done" ELSE IF last THEN next ELSE stage,
                 !.exit = IF ok THEN @ ELSE 1]
    /\ UNCHANGED <<program, world_size, preflight_only, cfg_file, g_config, pc,
                   bcast, barrier, chan, my_result, did_process, all_results,
                   origin, src, len, node_statuses, probe_log, ready_nodes, merge_calls,
                   merge_ok, reports, job_runs, classify_log, abundance_calls, abundance_fails,
                   transfers, classify_fails, exit_code>>

\* system(mpirun --hostfile ... -np num_nodes ... --mpi-worker -c
\* abs_config_file): one process per line of the hostfile starts
\* run_mpi_mode; a relative config path is looked up under cuclark_dir, where
\* the same file is found or none
launch_mpirun ==
    /\ program = "app" /\ launcher.pc = "mpirun"
    /\ \E found \in BOOLEAN :
          launcher' = [launcher EXCEPT
              !.pc = "wait", !.mpirun = @ + 1,
              !.abs_config_file =
                  IF found THEN cfg_file ELSE [cfg_file EXCEPT !.readable = FALSE]]
    /\ world_size' = Len(launcher.hostfile)
    /\ pc' = [r \in AllRanks |->
                IF r >= Len(launcher.hostfile) THEN "absent"
                ELSE IF r = 0 THEN "load" ELSE "bcast"]
    /\ UNCHANGED <<program, preflight_only, cfg_file, g_config,
                   bcast, barrier, chan, my_result, did_process, all_results,
                   origin, src, len, node_statuses, probe_log, ready_nodes, merge_calls,
                   merge_ok, reports, job_runs, classify_log, abundance_calls, abundance_fails,
                   transfers, classify_fails, exit_code>>

\* system(mpirun) returns when every process of the cohort has ended;
\* launch_mpi returns its exit status
launch_mpi_return ==
    /\ program = "app" /\ launcher.pc = "wait"
    /\ \A r \in Ranks : pc[r] \in {"done", "aborted", "crashed"}
    /\ launcher' = [launcher EXCEPT
           !.pc = "done",
           !.exit = IF \A r \in Ranks : exit_code[r] = 0 THEN 0 ELSE 1]
    /\ UNCHANGED <<program, world_size, preflight_only, cfg_file, g_config, pc,
                   bcast, barrier, chan, my_result, did_process, all_results,
                   origin, src, len, node_statuses, probe_log, ready_nodes, merge_calls,
                   merge_ok, reports, job_runs, classify_log, abundance_calls, abundance_fails,
                   transfers, classify_fails, exit_code>>

NextLaunch ==
    \/ launch_mpi_begin
    \/ launch_probe("ssh", "hostname", "bin")
    \/ launch_probe("bin", "test -x", "mpirun")
    \/ launch_mpirun
    \/ launch_mpi_return
    \/ NextApp

\* a run of src/app/arda_mpi.cpp from the command line on
SpecLaunch == InitLaunch /\ [][NextLaunch]_vars

(***************************************************************************)
(* Nodes that fail their health check.                                     *)
(***************************************************************************)
\* C11: every candidate node that failed its health check has a block with
\* status FAILED in the final report, and check_node ran exactly once for it.
C11_FailedNodesReported ==
    LET \* how often check_node has returned for host h
        ChecksOf(h) ==
            Cardinality({i \in 1..Len(node_statuses) :
                            node_statuses[i].hostname = h})
        \* report rep has a per-node block for host h with the status FAILED
        ReportedFailed(rep, h) ==
            \E b \in 1..Len(rep.blocks) :
                rep.blocks[b].hostname = h /\ rep.blocks[b].status = "FAILED"
    IN  \A k \in 1..Len(reports) :
            \A i \in 1..Len(node_statuses) :
                ~IsReady(node_statuses[i]) =>
                    /\ ReportedFailed(reports[k], node_statuses[i].hostname)
                    /\ ChecksOf(node_statuses[i].hostname) = 1

\* C12: jobs are dispatched if and only if at least one candidate node is
\* ready; with no candidate ready the run ends with a non-zero exit code, no
\* classify command is started on any node and no report is written.
C12_DispatchIffReady ==
    LET \* no classify command was started and no report was written
        NothingRan ==
            /\ \A h \in AllHosts : classify_log[h] = <<>> /\ job_runs[h] = 0
            /\ reports = <<>>
        \* run_master has found no candidate ready
        NoneReady ==
            /\ program = "legacy" /\ ~preflight_only
            /\ ChecksComplete /\ ReadyOf(node_statuses) = <<>>
    IN  /\ NoneReady => NothingRan
        /\ (NoneReady /\ pc[0] = "done") => exit_code[0] # 0
        /\ (program = "legacy" /\ ~preflight_only /\ pc[0] = "done"
            /\ ReadyOf(node_statuses) # <<>>) => Dispatched # {}

(***************************************************************************)
(* Readiness failures of single nodes.                                     *)
(***************************************************************************)
\* C13: when a candidate node fails a readiness probe (the pre-launch SSH
\* connectivity and binary probes included) while another candidate passed
\* its probes, the run is not aborted: launch_mpi does not return 1 there.
C13_ReadinessFailureContinues ==
    LET Answered(h, probe, ok) ==
            \E k \in 1..Len(launcher.ssh) :
                launcher.ssh[k] = [host |-> h, probe |-> probe, ok |-> ok]
        Ready(h) == Answered(h, "hostname", TRUE) /\ Answered(h, "test -x", TRUE)
        Failed(h) == Answered(h, "hostname", FALSE) \/ Answered(h, "test -x", FALSE)
    IN  (program = "app" /\ (\E h \in AllHosts : Failed(h))
                         /\ (\E h \in AllHosts : Ready(h)))
            => launcher.exit # 1

(***************************************************************************)
(* Failures of single jobs.                                                *)
(***************************************************************************)
\* C14: a classify or abundance failure on one node never stops another node:
\* no process is ended by it, the rank the coordinator waits for is always on
\* its way to send (or has sent), and when the report is written every process
\* has finished its job and every dispatched node has its entry and its block.
C14_FailureIsolated ==
    LET OnItsWay(r) ==
            pc[r] \in {"load", "bcast", "barrier", "sync", "job", "classify",
                       "abundance", "send_len", "send_data", "send"}
    IN  /\ \A r \in Ranks : pc[r] \notin {"crashed", "aborted"}
        /\ pc[0] \in {"recv", "recv_len", "recv_data"} =>
               (chan[src] # <<>> \/ OnItsWay(src))
        /\ reports # <<>> =>
               /\ \A r \in Ranks \ {0} : pc[r] = "done"
               /\ \A h \in Dispatched : \E i \in 1..Len(origin) : origin[i] = h
               /\ \A k \in 1..Len(reports) :
                      Len(reports[k].blocks) = Cardinality(Dispatched)

\* a cohort of three has ended with its report: the classify command failed
\* on the node of rank 1, the node of rank 2 was collected as a success
C14_Witness ==
    /\ program = "app" /\ world_size = 3 /\ reports # <<>>
    /\ classify_fails[HostOf(1)] > 0
    /\ Len(all_results) = 3
    /\ ~all_results[2].success /\ all_results[3].success
    /\ all_results[3].hostname = HostOf(2)

(***************************************************************************)
(* Configuration files.                                                    *)
(***************************************************************************)
\* C15: when load_config fails, launch_mpi returns 1 before any node is
\* contacted: no hostfile is written, no SSH probe and no mpirun command is
\* issued, no job runs; when load_config fails on rank 0 of a cohort, every
\* process of the cohort is ended with a non-zero exit code and none stays in
\* the broadcast.
C15_LoadFailureFatal ==
    LET NoJob == \A h \in AllHosts : job_runs[h] = 0 /\ classify_log[h] = <<>>
        LaunchFailed ==
            program = "app" /\ launcher.pc \notin {"none", "load"}
            /\ ~load_config_ok(cfg_file)
        RankZeroFailed ==
            program = "app" /\ world_size > 0 /\ pc[0] # "load"
            /\ ~load_config_ok(launcher.abs_config_file)
    IN  /\ LaunchFailed =>
               /\ launcher.pc = "done" /\ launcher.exit = 1
               /\ launcher.hostfile = <<>> /\ launcher.ssh = <<>>
               /\ launcher.mpirun = 0 /\ world_size = 0
               /\ NoJob /\ reports = <<>>
        /\ RankZeroFailed =>
               /\ \A r \in Ranks : pc[r] = "aborted" /\ exit_code[r] = 1
               /\ launcher.pc = "done" => launcher.exit = 1
               /\ NoJob /\ reports = <<>>

\* mpirun has returned to launch_mpi after rank 0 of a cohort of three failed to
\* load the file and the cohort was aborted
C15_Witness ==
    /\ program = "app" /\ world_size = 3
    /\ ~load_config_ok(launcher.abs_config_file)
    /\ \A r \in Ranks : pc[r] = "aborted"
    /\ launcher.pc = "done" /\ launcher.exit = 1

(***************************************************************************)
(* NodeResult.                                                             *)
(***************************************************************************)
\* C16: every NodeResult in the coordinator's collection has an empty
\* error_message if and only if its success is true, in the parallel and in
\* the sequential mode, also for a node with several read files of which one
\* fails and another succeeds.
C16_ErrorIffFailed ==
    \A i \in 1..Len(all_results) :
        (all_results[i].error_message = <<>>) <=> all_results[i].success

\* C17: the NodeResult the coordinator records for a worker equals the one the
\* worker produced, in every field; what a worker is about to send survives
\* NodeResult::serialize followed by NodeResult::deserialize unchanged.
C17_ResultTransferExact ==
    /\ \A r \in Ranks \ {0} :
           pc[r] \in {"send_len", "send_data"} =>
               NodeResult_deserialize(NodeResult_serialize(my_result[r]))
                   = [threw |-> FALSE, r |-> my_result[r]]
    /\ world_size > 1 =>
           \A r \in Ranks \ {0} : \A i \in 1..Len(all_results) :
               (pc[r] = "done" /\ origin[i] = HostOf(r)) =>
                   all_results[i] = my_result[r]

(***************************************************************************)
(* Paired-end and single-end classification.                               *)
(***************************************************************************)
\* C18: for a dispatched node with exactly two configured read files the
\* classify command is invoked in paired-end mode with both files in one
\* invocation; with exactly one read file, in single-end mode with that file.
C18_PairedOrSingle ==
    \A h \in AllHosts :
        (h \in DOMAIN cfg_file.reads /\ classify_log[h] # <<>>) =>
            LET node_reads == cfg_file.reads[h]
            IN  /\ Len(node_reads) = 2 =>
                       \A k \in 1..Len(classify_log[h]) :
                           classify_log[h][k] =
                               [mode |-> "paired", files |-> node_reads]
                /\ Len(node_reads) = 1 =>
                       \A k \in 1..Len(classify_log[h]) :
                           classify_log[h][k] =
                               [mode |-> "single", files |-> node_reads]

\* C19: load_config rejects a file in which some node has no read file or more
\* than two; no classify command is ever started for a node with more than
\* two read files.
C19_ReadCountValidated ==
    /\ (program = "app" /\ launcher.hostfile # <<>>) =>
           \A h \in DOMAIN cfg_file.reads : Len(cfg_file.reads[h]) \in {1, 2}
    /\ \A h \in AllHosts :
           classify_log[h] # <<>> => Len(cfg_file.reads[h]) <= 2

\* C20: in every ClusterConfig load_config has accepted, the master is not
\* among the workers and every key of the reads map is the master or a worker.
C20_TopologyInvariant ==
    (program = "app" /\ launcher.hostfile # <<>>) =>
        LET cfg == launcher.cfg
            IsWorker(h) == \E i \in 1..Len(cfg.workers) : cfg.workers[i] = h
        IN  /\ ~IsWorker(cfg.master)
            /\ \A k \in DOMAIN cfg.reads : k = cfg.master \/ IsWorker(k)

C22_SummaryCounts ==
    LET RECURSIVE SumAll(_)
        SumAll(results) ==
            IF results = <<>> THEN 0
            ELSE Head(results).elapsed_seconds + SumAll(Tail(results))
        LongestOf(results) ==
            IF results = <<>> THEN 0
            ELSE CHOOSE e \in {results[i].elapsed_seconds : i \in 1..Len(results)} :
                     \A i \in 1..Len(results) : results[i].elapsed_seconds <= e
    IN  \A k \in 1..Len(reports) :
            /\ reports[k].total = Len(all_results)
            /\ reports[k].total_success =
                   Cardinality({i \in 1..Len(all_results) : all_results[i].success})
            /\ reports[k].total_time = SumAll(all_results)
            /\ program = "app" => reports[k].max_time = LongestOf(all_results)

C24_MergedOnlyIfProduced ==
    \A k \in 1..Len(reports) :
        reports[k].merged # <<>> => (merge_calls = 1 /\ merge_ok)

(***************************************************************************)
(* The order of the report.                                                *)
(***************************************************************************)
\* C25: the per-node blocks of every report are in ascending order of their
\* hostnames, whatever the order of arrival of the results and the order in
\* which the configuration lists the workers.
C25_BlocksAscending ==
    \A k \in 1..Len(reports) :
        \A i, j \in 1..Len(reports[k].blocks) :
            i < j => StrLess(reports[k].blocks[i].hostname,
                             reports[k].blocks[j].hostname)

(***************************************************************************)
(* Preflight-only runs.                                                    *)
(***************************************************************************)
\* C26: in a run started with -p no process, coordinator or worker rank,
\* starts JobRunner or a classify command on any node, whatever the size of
\* the cohort.
C26_PreflightRunsNothing ==
    preflight_only =>
        \A h \in AllHosts : job_runs[h] = 0 /\ classify_log[h] = <<>>

(***************************************************************************)
(* How often JobRunner runs.                                               *)
(***************************************************************************)
\* C27: JobRunner runs at most once on each node; on the coordinator only if
\* master_processes_reads is true; and when the report is written it has run
\* exactly once on every node that was to do work: in src/app/arda_mpi.cpp the
\* workers of the hostfile and the master if it processes reads, in
\* src/arda_mpi.cpp the candidates that passed their health check.
C27_JobRunnerOncePerNode ==
    LET master == cfg_file.master
        ToDoWork ==
            IF program = "app"
            THEN {HostOf(r) : r \in Ranks \ {0}}
                 \cup (IF cfg_file.master_processes_reads THEN {master} ELSE {})
            ELSE {node_statuses[i].hostname :
                     i \in {k \in 1..Len(node_statuses) : IsReady(node_statuses[k])}}
    IN  /\ \A h \in AllHosts : job_runs[h] <= 1
        /\ job_runs[master] > 0 => cfg_file.master_processes_reads
        /\ reports # <<>> =>
               \A h \in AllHosts : (job_runs[h] = 1 <=> h \in ToDoWork)

(***************************************************************************)
(* Nodes without reads.                                                    *)
(***************************************************************************)
\* C28: a node that has no entry in the reads mapping is never dispatched:
\* JobRunner is not started on it and no report has a block for it; this holds
\* for a worker without reads and for a master that processes reads but has
\* no reads entry.
C28_NoReadsNoDispatch ==
    \A h \in AllHosts :
        h \notin DOMAIN cfg_file.reads =>
            /\ job_runs[h] = 0
            /\ \A k \in 1..Len(reports) : \A b \in 1..Len(reports[k].blocks) :
                   reports[k].blocks[b].hostname # h

(***************************************************************************)
(* The reads mapping on the wire.                                          *)
(***************************************************************************)
\* C29: for every reads mapping load_config has accepted (the empty one, one
\* with a reserved character of the wire format in a hostname or a path),
\* deserialize_config of the serialized configuration yields exactly that
\* mapping, and every process of the cohort holds the mapping of rank 0 once
\* it is through the broadcast.
C29_ReadsRoundTrip ==
    program = "app" =>
        /\ (launcher.pc # "load" /\ load_config_ok(cfg_file)) =>
               deserialize_config(DefaultConfig, serialize_config(launcher.cfg)).cfg.reads
                   = launcher.cfg.reads
        /\ \A r \in Ranks \ {0} :
               r \in barrier => g_config[r].reads = g_config[0].reads

(***************************************************************************)
(* Output paths.                                                           *)
(***************************************************************************)
\* C30: two distinct nodes of one run never write the same output path: for
\* any two distinct hostnames and any read-file names, the result files
\* derived as results_dir/hostname_basename are distinct.
C30_OutputPathsDistinct ==
    \A r, q \in Ranks :
        (/\ my_result[r].hostname # my_result[q].hostname
         /\ my_result[r].result_file # <<>>
         /\ my_result[q].result_file # <<>>)
            => my_result[r].result_file # my_result[q].result_file

(***************************************************************************)
(* src/arda_mpi.cpp: the health checks under every answer the nodes may    *)
(* give, up to the choice of the mode.                                     *)
(***************************************************************************)
\* the program started as one process, with or without -p
InitChecks ==
    /\ program = "legacy"
    /\ cfg_file \in ConfigFiles
    /\ InitCommon
    /\ launcher = [pc |-> "none"]
    /\ world_size = 1
    /\ preflight_only \in BOOLEAN
    /\ g_config = [r \in AllRanks |-> LegacyDefaultConfig]
    /\ pc = [r \in AllRanks |-> IF r >= world_size THEN "absent" ELSE "load"]

\* one turn of the loop of run_preflight_checks, as run_preflight_checks,
\* the node answering its probes in any way
check_candidate ==
    /\ program = "legacy" /\ pc[0] = "check"
    /\ LET cfg == g_config[0]
           node == Candidates(cfg)[src]
           nfiles == IF HasReads(cfg, node) THEN Len(cfg.reads[node]) ELSE 0
       IN  \E probe \in Probes(nfiles) :
              /\ node_statuses' = Append(node_statuses, check_node(node, cfg, probe))
              /\ probe_log' = Append(probe_log, check_node_commands(node, cfg, probe))
    /\ src' = src + 1
    /\ pc' = [pc EXCEPT ![0] =
                IF src = Len(Candidates(g_config[0])) THEN "dispatch" ELSE "check"]
    /\ UNCHANGED <<launcher, program, world_size, preflight_only, cfg_file, g_config, bcast,
                   barrier, chan, my_result, did_process, all_results, origin, len,
                   ready_nodes, merge_calls, merge_ok, reports,
                   job_runs, classify_log, classify_fails, abundance_calls,
                   abundance_fails, transfers, exit_code>>

SpecChecks ==
    InitChecks /\ [][legacy_main(0) \/ check_candidate \/ run_master_dispatch]_vars

\* C31: once run_master has built ready_nodes, a NodeStatus is in it if and
\* only if its reachable, database_ok, reads_ok and binary_ok are all true;
\* a node whose check got as far as the df probe is in it whatever df
\* answered (enough, low, unparsable, failed)
C31_ReadyIffFourFlags ==
    LET Flags(ns) == ns.reachable /\ ns.database_ok /\ ns.reads_ok /\ ns.binary_ok
        Placed(ns) == \E j \in 1..Len(ready_nodes) : ready_nodes[j] = ns
        DiskProbed(k) == /\ probe_log[k] # <<>>
                         /\ probe_log[k][Len(probe_log[k])].cmd = "df"
    IN  (program = "legacy" /\ ~preflight_only
         /\ pc[0] \notin {"load", "check", "dispatch"})
        => /\ \A k \in 1..Len(node_statuses) :
                 /\ Placed(node_statuses[k]) <=> Flags(node_statuses[k])
                 /\ DiskProbed(k) => Placed(node_statuses[k])
           /\ \A j \in 1..Len(ready_nodes) :
                 \E k \in 1..Len(node_statuses) : node_statuses[k] = ready_nodes[j]

\* three nodes checked: one ready although df failed, one ready although the
\* disk is nearly full, one not ready
C31_Witness ==
    /\ program = "legacy" /\ ~preflight_only /\ pc[0] = "seq"
    /\ Len(ready_nodes) = 2
    /\ \E k1, k2, k3 \in 1..Len(node_statuses) :
          /\ probe_log[k1][Len(probe_log[k1])] = [cmd |-> "df", answer |-> "failed"]
          /\ probe_log[k2][Len(probe_log[k2])] = [cmd |-> "df", answer |-> "low"]
          /\ ~node_statuses[k3].binary_ok
          /\ ready_nodes = <<node_statuses[k1], node_statuses[k2]>>

\* C32: the probes of every check_node are a beginning of the list echo,
\* database test, one test per read file, binary test, df, in that order, and
\* every probe but the last one issued was answered well (nothing follows a
\* failed probe); when the loop of run_preflight_checks is over, every
\* candidate has its status, in the order of the candidates
C32_ProbeOrder ==
    LET Order(n) == <<"echo", "test -d">> \o [i \in 1..n |-> "test -f"]
                    \o <<"test -x", "df">>
        NFiles(h) == IF HasReads(g_config[0], h) THEN Len(g_config[0].reads[h])
                     ELSE 0
    IN  program = "legacy" =>
           /\ Len(probe_log) = Len(node_statuses)
           /\ \A k \in 1..Len(probe_log) :
                 LET log == probe_log[k]
                     ord == Order(NFiles(node_statuses[k].hostname))
                 IN  /\ Len(log) \in 1..Len(ord)
                     /\ \A i \in 1..Len(log) :
                           /\ log[i].cmd = ord[i]
                           /\ i < Len(log) => log[i].answer = "ok"
           /\ pc[0] \notin {"load", "check"} =>
                 /\ Len(node_statuses) = Len(Candidates(g_config[0]))
                 /\ \A k \in 1..Len(node_statuses) :
                       node_statuses[k].hostname = Candidates(g_config[0])[k]

\* the first candidate did not answer the echo, the second lacks its second
\* read file, the third was probed to the end
C32_Witness ==
    /\ program = "legacy" /\ pc[0] = "seq"
    /\ Len(probe_log) = 3
    /\ probe_log[1] = <<[cmd |-> "echo", answer |-> "failed"]>>
    /\ Len(probe_log[2]) = 4 /\ probe_log[2][4] = [cmd |-> "test -f", answer |-> "failed"]
    /\ probe_log[3][Len(probe_log[3])].cmd = "df"

\* C33: when the loop of run_preflight_checks is over, the nodes check_node
\* was run on are the master, if master_processes_reads is true, and the
\* workers that have read files configured, and no other node
C33_CandidatesHaveReads ==
    LET cfg == g_config[0]
        Checked == {node_statuses[k].hostname : k \in 1..Len(node_statuses)}
        WithReads == {cfg.workers[i] : i \in {j \in 1..Len(cfg.workers) :
                                                 HasReads(cfg, cfg.workers[j])}}
    IN  (program = "legacy" /\ pc[0] \notin {"load", "check"})
        => Checked = (IF cfg.master_processes_reads THEN {cfg.master} ELSE {})
                     \cup WithReads

\* C34: at every moment of the parallel mode the collection of rank 0 is a
\* beginning of: the result of rank 0, there if and only if rank 0 ran the
\* job, then the results of ranks 1, 2, ... in this order, each the result
\* that rank produced; a later rank's messages waiting in the channel do not
\* change the order, and the collection is complete when the loop is left
C34_CollectionOrder ==
    LET own == IF did_process THEN <<0>> ELSE <<>>
        order == own \o [k \in 1..(world_size - 1) |-> k]
    IN  program = "app" =>
           /\ Len(all_results) <= Len(order)
           /\ \A i \in 1..Len(all_results) :
                 /\ all_results[i] = my_result[order[i]]
                 /\ all_results[i].hostname = HostOf(order[i])
           /\ pc[0] \in {"recv_len", "recv_data"} =>
                 Len(all_results) = Len(own) + src - 1
           /\ pc[0] \in {"merge", "report", "done"} =>
                 Len(all_results) = Len(order)

\* rank 2 has sent both its messages while rank 1 is still classifying: rank 0
\* holds its own result only and waits for rank 1
C34_Witness ==
    /\ program = "app" /\ world_size = 3 /\ did_process
    /\ pc[0] = "recv_len" /\ src = 1 /\ Len(all_results) = 1
    /\ Len(chan[2]) = 2 /\ pc[2] = "done"
    /\ pc[1] = "classify" /\ chan[1] = <<>>

\* C35: for a node JobRunner has run on once and returned from, if one of its
\* classify commands exited non-zero then that was its only failing classify
\* command, every other classify command of the node came before it and was
\* followed by its abundance command (so the classify commands are one more
\* than the abundance commands), and the NodeResult of the node is a failure
\* whose error_message names the exit status
C35_ClassifyFailureEndsJob ==
    LET Failure(res) ==
            /\ ~res.success
            /\ \E rc \in ExitCodes \ {0} : res.error_message = MsgClassifyFailed(rc)
        Stopped(h) ==
            /\ classify_fails[h] = 1
            /\ Len(classify_log[h]) = abundance_calls[h] + 1
    IN  /\ \A r \in Ranks :
              LET h == HostOf(r)
              IN  (~(program = "legacy" /\ world_size = 1)
                   /\ pc[r] \in {"send", "send_len", "send_data", "gather", "done"}
                   /\ job_runs[h] = 1 /\ classify_fails[h] > 0)
                  => Stopped(h) /\ Failure(my_result[r])
        /\ (program = "legacy" /\ world_size = 1) =>
              \A i \in 1..Len(all_results) :
                 LET h == all_results[i].hostname
                 IN  (job_runs[h] = 1 /\ classify_fails[h] > 0)
                     => Stopped(h) /\ Failure(all_results[i])

\* C36: for a node JobRunner has run on once and whose (single) classify
\* command exited 0, the NodeResult has success true whatever the abundance
\* command returned, and its abundance_file is set if and only if the
\* abundance command exited 0
C36_AbundanceNonFatal ==
    LET Classified(h) ==
            /\ job_runs[h] = 1 /\ Len(classify_log[h]) = 1
            /\ classify_fails[h] = 0 /\ abundance_calls[h] = 1
        Outcome(h, res) ==
            /\ res.success
            /\ res.abundance_file # <<>> <=> abundance_fails[h] = 0
    IN  /\ \A r \in Ranks :
              (~(program = "legacy" /\ world_size = 1)
               /\ pc[r] \in {"send", "send_len", "send_data", "gather", "done"}
               /\ Classified(HostOf(r)))
              => Outcome(HostOf(r), my_result[r])
        /\ (program = "legacy" /\ world_size = 1) =>
              \A i \in 1..Len(all_results) :
                 Classified(all_results[i].hostname)
                 => Outcome(all_results[i].hostname, all_results[i])

(***************************************************************************)
(* src/arda_mpi.cpp: full runs with and without collect_results_to_master. *)
(***************************************************************************)
\* the program started without -p on a valid file that sets
\* options.collect_results_to_master to true or to false
InitCollect ==
    /\ program = "legacy"
    /\ \E c \in BOOLEAN :
          cfg_file = [BaseFile EXCEPT !.collect_results_to_master = c]
    /\ InitCommon
    /\ launcher = [pc |-> "none"]
    /\ world_size \in WorldSizes
    /\ preflight_only = FALSE
    /\ g_config = [r \in AllRanks |-> LegacyDefaultConfig]
    /\ pc = [r \in AllRanks |-> IF r >= world_size THEN "absent" ELSE "load"]

SpecCollect == InitCollect /\ [][NextLegacy]_vars

\* C37: collect_results copies files only when collect_results_to_master is
\* true, and every file it tries to copy is the result file or the abundance
\* file of a NodeResult with success true (none for a failed NodeResult);
\* the step that copies leaves every NodeResult as it was, and whatever scp
\* returned the report is written with one block per NodeResult
C37_CollectGated ==
    /\ [](program = "legacy" =>
            /\ transfers # {} => g_config[0].collect_results_to_master
            /\ \A t \in transfers :
                  \E i \in 1..Len(all_results) :
                     /\ all_results[i].hostname = t.host
                     /\ all_results[i].success
                     /\ t.file \in {all_results[i].result_file,
                                    all_results[i].abundance_file}
            /\ \A i \in 1..Len(all_results) :
                  ~all_results[i].success =>
                     \A t \in transfers : t.host # all_results[i].hostname
            /\ transfers # {} =>
                  /\ Len(reports) = 1
                  /\ Len(reports[1].blocks) = Len(all_results))
    /\ [][transfers' # transfers => all_results' = all_results]_vars

\* a sequential run with a failed node and a successful one: every scp for
\* the successful node failed, and the report is there
C37_Witness ==
    /\ program = "legacy" /\ world_size = 1 /\ pc[0] = "done"
    /\ transfers # {} /\ \A t \in transfers : t.rc # 0
    /\ \E i \in 1..Len(all_results) : ~all_results[i].success
    /\ reports # <<>>

\* C38: the messages waiting from worker k are its length message, then its
\* payload message, both tagged TAG_RESULT_DATA and both its own; between
\* the two receives of rank 0 for rank src, the length held is that of rank
\* src's payload, the next message from rank src is that payload, and no
\* other worker's length has been taken; every NodeResult recorded for a
\* worker is rank k's payload cut at rank k's length, for the one rank k it
\* was received from
C38_LengthAndPayloadPaired ==
    LET Data(k) == NodeResult_serialize(my_result[k])
        Built(k) == NodeResult_deserialize(SubSeq(Data(k), 1, Len(Data(k)))).r
        own == IF did_process THEN 1 ELSE 0
        Taken(k) == pc[0] = "recv_data" /\ src = k
        Waiting(k) ==
            /\ \A i \in 1..Len(chan[k]) : chan[k][i].tag = "TAG_RESULT_DATA"
            /\ CASE chan[k] = <<>> -> TRUE
                 [] Len(chan[k]) = 1 /\ pc[k] = "send_data" ->
                       ~Taken(k) /\ chan[k][1].body = Len(Data(k))
                 [] Len(chan[k]) = 1 /\ pc[k] = "done" ->
                       IF Taken(k) THEN chan[k][1].body = Data(k) ELSE FALSE
                 [] Len(chan[k]) = 2 /\ pc[k] = "done" ->
                       /\ ~Taken(k)
                       /\ chan[k][1].body = Len(Data(k))
                       /\ chan[k][2].body = Data(k)
                 [] OTHER -> FALSE
    IN  program = "app" =>
           /\ \A i \in (own + 1)..Len(all_results) :
                 /\ all_results[i] = Built(i - own)
                 /\ \A k \in Ranks \ {0} : all_results[i] = Built(k) => k = i - own
           /\ \A k \in Ranks \ {0} : Waiting(k)
           /\ pc[0] = "recv_data" =>
                 /\ len = Len(Data(src))
                 /\ pc[src] \in {"send_data", "done"}

\* rank 0 holds the length of rank 1 and waits for its payload, while rank 2
\* has already sent its length and its payload
C38_Witness ==
    /\ program = "app" /\ world_size = 3
    /\ pc[0] = "recv_data" /\ src = 1 /\ chan[1] = <<>> /\ pc[1] = "send_data"
    /\ Len(chan[2]) = 2 /\ pc[2] = "done"

\* C39: in every NodeStatus check_node has returned, disk_ok implies
\* binary_ok, binary_ok implies reads_ok, reads_ok implies database_ok and
\* database_ok implies reachable
C39_FlagChain ==
    \A k \in 1..Len(node_statuses) :
       LET ns == node_statuses[k]
       IN  /\ ns.disk_ok => ns.binary_ok
           /\ ns.binary_ok => ns.reads_ok
           /\ ns.reads_ok => ns.database_ok
           /\ ns.database_ok => ns.reachable

\* three statuses: one stopped at the database probe, one at the test of a
\* read file, one with every flag
C39_Witness ==
    /\ Len(node_statuses) = 3 /\ Len(probe_log) = 3
    /\ node_statuses[1].reachable /\ ~node_statuses[1].database_ok
    /\ node_statuses[2].database_ok /\ ~node_statuses[2].reads_ok
    /\ probe_log[2][Len(probe_log[2])].cmd = "test -f"
    /\ node_statuses[3].disk_ok /\ node_statuses[3].reachable

\* C40: in every NodeStatus check_node has returned, error_message is empty
\* if and only if reachable, database_ok, reads_ok and binary_ok are all true
C40_ErrorIffNotReady ==
    \A k \in 1..Len(node_statuses) :
       LET ns == node_statuses[k]
       IN  ns.error_message = <<>>
           <=> (ns.reachable /\ ns.database_ok /\ ns.reads_ok /\ ns.binary_ok)

====
